---------------------------- MODULE Spec2Model ----------------------------
(***************************************************************************)
(* The podcast-clipper worker (worker.py) and the clip engine              *)
(* (smartclip_engine.py) as a state machine.                               *)
(*                                                                         *)
(* One worker process polls a Redis list, parses each item, runs           *)
(* process_job on it (download -> SmartClipEngine.process -> upload) and   *)
(* writes status records to the project's status key.  The external        *)
(* collaborators (yt-dlp, S3, OpenCV, ffmpeg, whisper) are modelled by     *)
(* their outcome: each call either succeeds or fails, chosen with \E.      *)
(* The status channel itself (redis SET) is taken to accept every write.   *)
(* A KeyboardInterrupt may arrive at the blocking poll or anywhere inside  *)
(* the body of the `with managed_temp_dir` block.                          *)
(*                                                                         *)
(* Numbers.  Progress fractions are Python floats.  They are kept as exact *)
(* rationals num/den plus `ulp`, the sign of the IEEE-754 rounding error   *)
(* where it decides a comparison: 0.1 + 0.2 * 1.0 evaluates to             *)
(* 0.30000000000000004, one unit in the last place above the literal 0.3.  *)
(* Face centres are (x + w/2) / 640, kept as the integer 2x + w over       *)
(* 2 * 640.                                                                *)
(***************************************************************************)
EXTENDS Integers, Sequences, FiniteSets, TLC

VARIABLES
    \* ---- run_worker ----
    queue,            \* the Redis list podcast_clipper_jobs: job ids, head = left end
    submitted,        \* how many jobs producers have pushed so far
    pc,               \* where the worker is
    job_data,         \* the item taken by the last brpop
    jobs_processed,   \* run_worker's counter
    interrupted,      \* a KeyboardInterrupt has been delivered
    \* ---- process_job, for the job taken last ----
    log,              \* the status records written for the job, in order
    workspace,        \* "none" | "exists" | "removed": the job's temp directory
    uploaded,         \* upload_to_s3 has completed for the job
    fetches,          \* the download and cut steps run for the job, with their outcome
    failed_stage,     \* the stage whose exception is propagating, or "none"
    exit_kind,        \* "none" | "return" | "raise": how process_job left its try block
    \* ---- SmartClipEngine.process ----
    reports,          \* the fractions passed to report(), in order
    trace,            \* the stages entered, in order
    done,             \* the stages completed, in order
    clip_frames,
    width,            \* frame width of the source, as OpenCV reports it
    height,           \* frame height of the source
    crops,            \* the crop rectangles of the filter graph of the crop render
    frame_idx,
    inspected,        \* how many frames were handed to the face detector
    face_detections,  \* center_x of every detection, in order
    speakers,
    layout_mode,
    calls,            \* the media-transform-engine invocations of the two render stages
    temp_video,       \* temp_clip.mp4 exists
    output,           \* output.mp4 exists
    num_words,        \* words in the transcript
    subtitles,        \* subtitles.ass: its Style lines and its Dialogue events
    result,           \* what process() returned
    \* ---- the speaker/layout resolver on its own ----
    obs,              \* an observation list (center_x values)
    r_done,
    r_speakers,
    r_mode,
    \* ---- the crop planner on its own, run on two observation lists ----
    src_w,            \* source width
    src_h,            \* source height
    obs_a,            \* the observations of the first run
    obs_b,            \* the observations of the second run
    p_done,
    plan_a,           \* speakers, layout mode and crops of the first run
    plan_b,
    \* ---- the caption timeline builder on its own ----
    t_words,          \* the transcript: words with start and end in milliseconds
    t_style,          \* the style name handed to SubtitleGenerator
    t_timeline,       \* the layout timeline handed to generate()
    t_done,
    t_events,         \* the Dialogue events of the subtitle document, in order
    \* ---- smart_wrap on its own ----
    wrap_words,       \* the words of one chunk: position in the chunk and len(text)
    wrap_done,
    wrap_lines,       \* the lines smart_wrap returns: a sequence of word sequences
    \* ---- the face sampling loop on its own ----
    s_clip_frames,    \* clip_frames
    s_frame_idx,      \* frame_idx
    s_inspected,      \* the indices of the frames handed to the face detector
    s_faces,          \* face_detections: center_x of every detection, in order
    s_pc,             \* "idle" | "scan" | "resolve" | "done"
    s_mode            \* the layout decided from the detections

workerVars == <<queue, submitted, pc, job_data, jobs_processed, interrupted>>
jobVars    == <<log, workspace, uploaded, fetches, failed_stage, exit_kind>>
engineVars == <<reports, trace, done, clip_frames, width, height, crops, frame_idx, inspected,
                face_detections, speakers, layout_mode, calls, temp_video, output, num_words,
                subtitles, result>>
resolverVars == <<obs, r_done, r_speakers, r_mode>>
plannerVars == <<src_w, src_h, obs_a, obs_b, p_done, plan_a, plan_b>>
captionVars == <<t_words, t_style, t_timeline, t_done, t_events>>
wrapVars == <<wrap_words, wrap_done, wrap_lines>>
samplerVars == <<s_clip_frames, s_frame_idx, s_inspected, s_faces, s_pc, s_mode>>
harnessVars == <<resolverVars, plannerVars, captionVars, wrapVars, samplerVars>>
vars == <<workerVars, jobVars, engineVars, harnessVars>>

----------------------------------------------------------------------------
(* Bounds of the model *)

\* jobs pushed on the queue in one run
MaxJobs == 2
\* face detections kept in one clip
MaxDetections == 2
\* observations handed to the resolver on its own
MaxObs == 3
\* frames of the longest clip handed to the sampling loop on its own
MaxClipFrames == 110

(* Program constants *)

\* the sampler aims at about this many inspected frames
SampleTarget == 50
\* a scanning report every this many frames
ReportEvery == 100
\* width of the downscaled frame handed to the detector
DetectW == 640


----------------------------------------------------------------------------
(* Progress fractions and status records *)

\* the float literal k/100 that process() passes to report()
Milestone(k) == [num |-> k, den |-> 100, ulp |-> 0]

\* 0.1 + 0.2 * (frame_idx / clip_frames); frame_idx / clip_frames is 1.0 when
\* they are equal, and 0.1 + 0.2 rounds up to 0.30000000000000004
ScanProgress(f, c) == [num |-> c + 2 * f, den |-> 10 * c, ulp |-> IF f = c THEN 1 ELSE 0]

\* a <= b on the floats
FracLeq(a, b) ==
    \/ a.num * b.den < b.num * a.den
    \/ a.num * b.den = b.num * a.den /\ a.ulp <= b.ulp

\* a = the float literal k/100
FracIs(a, k) == a.num * 100 = k * a.den /\ a.ulp = 0

\* a faulty variant: the callback forgets the 25..90 window and writes percent
UnmappedProgress(p) == (100 * p.num) \div p.den

\* progress_callback: int(25 + progress * 65)
MappedProgress(p) == (25 * p.den + 65 * p.num) \div p.den

Status(st, stage, progress, err) ==
    [status |-> st, stage |-> stage, progress |-> progress, error |-> err]

Processing(stage, progress) == Status("processing", stage, progress, "")

\* the record progress_callback writes for one report()
CallbackStatus(p) == Processing("engine", MappedProgress(p))

\* the progress field of the 'failed' record
FailedProgress == 0

\* the 'failed' record of process_job's except clause
FailedStatus(err) == Status("failed", "error", FailedProgress, err)

\* final_status of process_job
CompletedStatus == Status("completed", "completed", 100, "")

IsTerminal(s) == s.status \in {"completed", "failed"}

\* report(p, msg) for each p of ps in turn: the engine's own record of the call
\* and the status write the worker's callback makes for it
Report(ps) ==
    /\ reports' = reports \o ps
    /\ log' = log \o [i \in 1..Len(ps) |-> CallbackStatus(ps[i])]

----------------------------------------------------------------------------
(* The speaker/layout resolver *)

RECURSIVE SumSeq(_)
SumSeq(s) == IF s = <<>> THEN 0 ELSE Head(s) + SumSeq(Tail(s))

\* a faulty variant: the boundary 0.5 counted on the left as well
IsLeftInclusive(c2) == c2 <= DetectW

\* center_x < 0.5, for center_x = c2 / (2 * 640)
IsLeft(c2) == c2 < DetectW

left_faces(xs) == SelectSeq(xs, LAMBDA x : IsLeft(x))

\* a faulty variant: the boundary 0.5 belongs to neither side
IsRightExclusive(c2) == c2 > DetectW

\* center_x >= 0.5
IsRight(c2) == c2 >= DetectW

right_faces(xs) == SelectSeq(xs, LAMBDA x : IsRight(x))

\* sum(faces) / len(faces), as the rational num/den
Average(faces) == [num |-> SumSeq(faces), den |-> Len(faces) * 2 * DetectW]

Speaker(id, faces) == [id |-> id, x_position |-> Average(faces)]

\* a faulty variant: the right-hand speaker is appended first
ResolveSpeakersRightFirst(xs) ==
    (IF right_faces(xs) # <<>> THEN <<Speaker(1, right_faces(xs))>> ELSE <<>>)
        \o (IF left_faces(xs) # <<>> THEN <<Speaker(0, left_faces(xs))>> ELSE <<>>)

ResolveSpeakers(xs) ==
    (IF left_faces(xs) # <<>> THEN <<Speaker(0, left_faces(xs))>> ELSE <<>>)
        \o (IF right_faces(xs) # <<>> THEN <<Speaker(1, right_faces(xs))>> ELSE <<>>)

\* a faulty variant: only exactly one speaker counts as a single layout
LayoutModeUnlessOne(sp) == IF Len(sp) # 1 THEN "split" ELSE "single"

\* a faulty variant: one speaker is enough for a split layout
LayoutModeFromOne(sp) == IF Len(sp) >= 1 THEN "split" ELSE "single"

\* is_split = num_speakers >= 2
LayoutMode(sp) == IF Len(sp) >= 2 THEN "split" ELSE "single"

\* a faulty variant: the quotient is rounded up instead of down
SampleIntervalUp(c) ==
    IF (c + SampleTarget - 1) \div SampleTarget >= 1 THEN (c + SampleTarget - 1) \div SampleTarget ELSE 1

\* sample_interval = max(1, clip_frames // 50)
SampleInterval(c) == IF c \div SampleTarget >= 1 THEN c \div SampleTarget ELSE 1

----------------------------------------------------------------------------
(* The crop planner: _single_speaker_filter and the split branch of process() *)

\* target_w and target_h of _single_speaker_filter.  target_aspect is the float
\* 1080 / 1920 = 0.5625, which is exact in binary; height * 0.5625 and
\* width / 0.5625 therefore truncate to the same integers as the exact
\* quotients below.
TargetW == 1080
TargetH == 1920

\* the four numbers of a crop=w:h:x:y filter
Crop(w, h, x, y) == [w |-> w, h |-> h, x |-> x, y |-> y]

\* int(v) of Python for v = n / d, d > 0: the fraction is dropped, toward zero
Trunc(n, d) == IF n >= 0 THEN n \div d ELSE -((-n) \div d)

\* a faulty variant: the crop is pushed to the far edge instead of centred
FlushToEnd(total, part) == total - part

\* (width - crop_w) // 2 and (height - crop_h) // 2
Centred(total, part) == (total - part) \div 2

\* source_aspect > target_aspect, for source_aspect = width / height
IsWider(w, h) == w * TargetH > h * TargetW

single_speaker_filter(w, h) ==
    IF IsWider(w, h)
    THEN LET crop_w == (h * TargetW) \div TargetH
         IN  Crop(crop_w, h, Centred(w, crop_w), 0)
    ELSE LET crop_h == (w * TargetH) \div TargetW
         IN  Crop(w, crop_h, 0, Centred(h, crop_h))

\* a faulty variant: the whole crop width is subtracted, the speaker ends up on
\* the right edge of the crop
WholeOf(crop_w) == crop_w

\* crop_w // 2
HalfOf(crop_w) == crop_w \div 2

\* a faulty variant: the offset is used as computed
Unclamped(x, w, crop_w) == x

\* a faulty variant: min and max exchanged, min(0, max(x, width - crop_w))
ClampSwapped(x, w, crop_w) ==
    LET lower == IF x > w - crop_w THEN x ELSE w - crop_w
    IN  IF lower < 0 THEN lower ELSE 0

\* max(0, min(x, width - crop_w))
Clamp(x, w, crop_w) ==
    LET upper == IF x < w - crop_w THEN x ELSE w - crop_w
    IN  IF upper > 0 THEN upper ELSE 0

\* left_crop_x / right_crop_x: int(x * width - crop_w // 2), then the clamp
SplitCropX(pos, w) ==
    LET crop_w == w \div 2
    IN  Clamp(Trunc(pos.num * w - HalfOf(crop_w) * pos.den, pos.den), w, crop_w)

\* a faulty variant: the comparison is reversed, the right speaker goes on top
NotBefore(a, b) == a.num * b.den >= b.num * a.den

\* s0 < s1 on the positions
Before(a, b) == a.num * b.den < b.num * a.den

\* the two crops of the split-screen filter, left one first
SplitCrops(sp, w, h) ==
    LET s0 == sp[1].x_position
        s1 == sp[2].x_position
        left_x == IF Before(s0, s1) THEN s0 ELSE s1
        right_x == IF Before(s0, s1) THEN s1 ELSE s0
    IN  <<Crop(w \div 2, h, SplitCropX(left_x, w), 0),
          Crop(w \div 2, h, SplitCropX(right_x, w), 0)>>

\* a faulty variant: with one speaker the single crop follows the face
FaceCentredCrops(mode, sp, w, h) ==
    IF mode = "split" /\ Len(sp) >= 2 THEN SplitCrops(sp, w, h)
    ELSE IF Len(sp) = 1
         THEN <<Crop(w \div 2, h, SplitCropX(sp[1].x_position, w), 0)>>
         ELSE <<single_speaker_filter(w, h)>>

\* the crops of filter_complex: if is_split ... else ...
PlanCrops(mode, sp, w, h) ==
    IF mode = "split"
    THEN IF Len(sp) >= 2 THEN SplitCrops(sp, w, h) ELSE <<single_speaker_filter(w, h)>>
    ELSE <<single_speaker_filter(w, h)>>


----------------------------------------------------------------------------
(* SubtitleGenerator._generate_ass: the caption timeline.  Times are in       *)
(* milliseconds; the float literals 0.1, 0.05, 0.25 and 0.5 seconds are 100,  *)
(* 50, 250 and 500.                                                           *)

\* style.get('words_per_display', 5)
DefaultWordsPerDisplay == 5

\* STYLES: the fields of each preset that decide the timeline and the region
STYLES ==
    [chris_cinematic |->
        [animation_type |-> "scale_color", words_per_display |-> DefaultWordsPerDisplay,
         center_vertical |-> FALSE],
     clean_pop |->
        [animation_type |-> "pop_in", words_per_display |-> DefaultWordsPerDisplay,
         center_vertical |-> FALSE],
     minimal_lowercase |->
        [animation_type |-> "fade_in", words_per_display |-> DefaultWordsPerDisplay,
         center_vertical |-> FALSE],
     bold_emphasis |->
        [animation_type |-> "punch_return", words_per_display |-> DefaultWordsPerDisplay,
         center_vertical |-> FALSE],
     karaoke_snap |->
        [animation_type |-> "snap_in", words_per_display |-> 1,
         center_vertical |-> TRUE],
     warm_italic |->
        [animation_type |-> "glow_highlight", words_per_display |-> DefaultWordsPerDisplay,
         center_vertical |-> FALSE]]

\* a faulty variant: a name that is not in the table gets a style of its own,
\* without animation
StyleOfOrPlain(style_name) ==
    IF style_name \in DOMAIN STYLES THEN STYLES[style_name]
    ELSE [animation_type |-> "none", words_per_display |-> DefaultWordsPerDisplay,
          center_vertical |-> FALSE]

\* SubtitleGenerator.__init__: STYLES.get(style_name, STYLES['chris_cinematic'])
StyleOf(style_name) ==
    IF style_name \in DOMAIN STYLES THEN STYLES[style_name] ELSE STYLES["chris_cinematic"]

\* range(0, n, step), as the sequence of its values
Range(n, step) == [k \in 1..((n + step - 1) \div step) |-> (k - 1) * step]

\* a faulty variant: the slice stops one word early
SliceShort(words, i, j) ==
    SubSeq(words, i + 1, (IF j < Len(words) THEN j ELSE Len(words)) - 1)

\* words[i:j] for 0 <= i <= j
Slice(words, i, j) == SubSeq(words, i + 1, IF j < Len(words) THEN j ELSE Len(words))

\* a faulty variant: a single-word caption stays up until its own word ends
KeepOwnEnd(own_end, next_start) == own_end

\* chunk_end = next_start: end exactly when the next word starts
SingleWordEnd(own_end, next_start) == next_start

\* a faulty variant: the trailing pad alone, whatever comes next
PadOnly(last_end, next_start) == last_end + 100

\* min(chunk_end + 0.1, next_start - 0.05)
PaddedEnd(last_end, next_start) ==
    IF last_end + 100 < next_start - 50 THEN last_end + 100 ELSE next_start - 50

\* a faulty variant: the last caption gets the pad of an inner one
LastChunkEndTight(last_end) == last_end + 100

\* chunk_end = chunk_end + 0.25: no chunk follows
LastChunkEnd(last_end) == last_end + 250

\* chunk_end before the minimum-duration rule, for the chunk that starts at
\* index i (0-based)
ChunkEnd(words, i, wpd) ==
    LET display_words == Slice(words, i, i + wpd)
        last_end == display_words[Len(display_words)].end
    IN  IF wpd = 1 /\ i + 1 < Len(words)
        THEN SingleWordEnd(last_end, words[i + 2].start)
        ELSE IF i + wpd < Len(words)
             THEN PaddedEnd(last_end, words[i + wpd + 1].start)
             ELSE LastChunkEnd(last_end)

\* a faulty variant: the minimum-duration rule is left out
NeverTooShort(chunk_start, chunk_end, wpd) == FALSE

\* a faulty variant: a quarter of a second is taken to be long enough
IsTooShortQuarter(chunk_start, chunk_end, wpd) ==
    wpd > 1 /\ chunk_end - chunk_start < 250

\* if words_per_display > 1 and chunk_end - chunk_start < 0.5
IsTooShort(chunk_start, chunk_end, wpd) == wpd > 1 /\ chunk_end - chunk_start < 500

\* format_time(seconds): f"{h}:{m:02d}:{s:05.2f}", the time as the document shows
\* it: hours, minutes and the seconds of the minute in hundredths, rounded to
\* the nearest one.  Word times lie on the 10 ms grid, where nothing is rounded.
format_time(ms) ==
    [h |-> ms \div 3600000,
     m |-> (ms % 3600000) \div 60000,
     cs |-> ((ms % 60000) + 5) \div 10]

\* get_mode_at_time(t): the mode of the first segment of the layout timeline
\* that holds t, 'single' when there is no timeline or no segment holds t
RECURSIVE get_mode_at_time(_, _)
get_mode_at_time(t, layout_timeline) ==
    IF layout_timeline = <<>> THEN "single"
    ELSE LET seg == Head(layout_timeline)
         IN  IF seg.start <= t /\ t <= seg.end THEN seg.mode
             ELSE get_mode_at_time(t, Tail(layout_timeline))

\* the [V4+ Styles] section of the header: three Style lines, in this order
HeaderStyles == <<"Bottom", "Center", "MiddleCenter">>

\* a faulty variant: the layout is not looked at
RegionOfSingle(center_vertical, mode) ==
    IF center_vertical THEN "MiddleCenter" ELSE "Bottom"

\* style_name of a chunk: MiddleCenter / Center / Bottom
RegionOf(center_vertical, mode) ==
    IF center_vertical THEN "MiddleCenter"
    ELSE IF mode = "split" THEN "Center"
    ELSE "Bottom"

\* a faulty variant: the floor of the visible time is 50 ms
VisibleEndBrief(word_start_ms, word_end_ms) ==
    IF word_end_ms - word_start_ms < 50 THEN word_start_ms + 50 ELSE word_end_ms

\* a faulty variant: a word is visible for as long as it is spoken
VisibleEndAsSpoken(word_start_ms, word_end_ms) == word_end_ms

\* if word_end_ms - word_start_ms < 150: word_end_ms = word_start_ms + 150
VisibleEnd(word_start_ms, word_end_ms) ==
    IF word_end_ms - word_start_ms < 150 THEN word_start_ms + 150 ELSE word_end_ms

\* int((t - chunk_start) * 1000) for two times that are d milliseconds apart:
\* the difference of the two doubles times 1000 is d or a little less than d
\* (int((1.2 - 1.0) * 1000) is 199), and int() drops the fraction; equal times
\* give 0.  Which of the two it is depends on the binary expansions, so both
\* are kept.
Truncated(d) ==
    IF d > 0 THEN {d - 1, d} ELSE IF d < 0 THEN {d, d + 1} ELSE {0}

\* word_start_ms and word_end_ms of a word, its offsets from the chunk's start
\* in whole milliseconds: the pairs the float arithmetic can give
WordTiming(word, chunk_start) ==
    {[word_start_ms |-> word_start_ms,
      word_end_ms |-> VisibleEnd(word_start_ms, word_end_ms)] :
        word_start_ms \in Truncated(word.start - chunk_start),
        word_end_ms \in Truncated(word.end - chunk_start)}

\* the durations of the animation branches, in milliseconds
anim_in == 60
anim_out == 100
bounce_ms == 40
fade_duration == 80
punch_in == 50
punch_settle == 80
punch_out == 80
glow_in == 80
glow_out == 120

\* one \t(from, to, ...) tag: what it changes the word to, and when
Transition(kind, from, to) == [kind |-> kind, from |-> from, to |-> to]

\* word_with_anim: the \t tags of one word, in the order they are written.
\* "appear" makes the word visible, "settle" brings the scale back, "highlight"
\* switches to the highlight colour and scale, "revert" switches back to the
\* primary colour and the normal scale.
WordTransitions(animation_type, tm) ==
    LET s == tm.word_start_ms
        e == tm.word_end_ms
    IN  CASE animation_type = "pop_in" ->
                <<Transition("appear", s, s + anim_in),
                  Transition("settle", s + anim_in, s + anim_in + bounce_ms)>>
          [] animation_type = "scale_color" ->
                <<Transition("highlight", s, s + anim_in),
                  Transition("revert", e, e + anim_out)>>
          [] animation_type = "fade_in" ->
                <<Transition("appear", s, s + fade_duration)>>
          [] animation_type = "punch_highlight" ->
                <<Transition("highlight", s, s + punch_in),
                  Transition("settle", s + punch_in, s + punch_in + punch_settle)>>
          [] animation_type = "punch_return" ->
                <<Transition("highlight", s, s + punch_in),
                  Transition("revert", e, e + punch_out)>>
          [] animation_type = "glow_highlight" ->
                <<Transition("highlight", s, s + glow_in),
                  Transition("revert", e, e + glow_out)>>
          [] OTHER -> <<>>

\* one pass of the loop body: the Dialogue event of the chunk at index i
Event(words, i, style, layout_timeline) ==
    LET wpd == style.words_per_display
        display_words == Slice(words, i, i + wpd)
        chunk_start == display_words[1].start
        chunk_end == ChunkEnd(words, i, wpd)
        display_end == IF IsTooShort(chunk_start, chunk_end, wpd)
                       THEN chunk_start + 500 ELSE chunk_end
    IN  [words |-> display_words,
         display_start |-> chunk_start,
         display_end |-> display_end,
         extended |-> IsTooShort(chunk_start, chunk_end, wpd),
         start_str |-> format_time(chunk_start),
         end_str |-> format_time(display_end),
         style_name |-> RegionOf(style.center_vertical,
                                 get_mode_at_time(chunk_start, layout_timeline)),
         timing |-> [j \in DOMAIN display_words |->
                        WordTiming(display_words[j], chunk_start)],
         transitions |-> [j \in DOMAIN display_words |->
                        {WordTransitions(style.animation_type, tm) :
                            tm \in WordTiming(display_words[j], chunk_start)}]]

\* the events of the document, one per value of range(0, len(words), wpd) whose
\* slice is not empty
generate_ass(words, style_name, layout_timeline) ==
    LET style == StyleOf(style_name)
        wpd == style.words_per_display
        starts == SelectSeq(Range(Len(words), wpd),
                            LAMBDA i : Slice(words, i, i + wpd) # <<>>)
    IN  [k \in DOMAIN starts |-> Event(words, starts[k], style, layout_timeline)]

\* a word of the transcript: start and end in milliseconds
Word(start, dur) == [start |-> start, end |-> start + dur]

\* subtitle_timeline = [{'start': 0, 'end': duration, 'mode': layout_mode}]
SubtitleTimeline(duration, mode) ==
    <<[start |-> 0, end |-> duration, mode |-> mode]>>

\* a faulty variant: nothing is written for a transcript without words
SubtitleFileUnlessEmpty(words, style_name, layout_timeline) ==
    IF words = <<>> THEN [styles |-> <<>>, events |-> <<>>]
    ELSE [styles |-> HeaderStyles,
          events |-> generate_ass(words, style_name, layout_timeline)]

\* the content generate() writes to subtitles.ass: the header with its three
\* Style lines, then one Dialogue line per event
SubtitleFile(words, style_name, layout_timeline) ==
    [styles |-> HeaderStyles,
     events |-> generate_ass(words, style_name, layout_timeline)]

----------------------------------------------------------------------------
(* Inputs *)

\* What a queue item can hold.  json_ok: json.loads accepts it; has_project_id:
\* job_data['project_id'] exists; source_type: 'youtube' or anything else;
\* subtitle_style: a style name, or "" when the caller disabled captions.
JobItems ==
    [json_ok : {TRUE}, has_project_id : {TRUE},
     source_type : {"youtube", "upload"}, subtitle_style : {"chris_cinematic", ""}]
    \cup {[json_ok |-> FALSE, has_project_id |-> FALSE,
           source_type |-> "youtube", subtitle_style |-> ""],
          [json_ok |-> TRUE, has_project_id |-> FALSE,
           source_type |-> "youtube", subtitle_style |-> ""]}

NoJob == [id |-> 0, json_ok |-> FALSE, has_project_id |-> FALSE,
          source_type |-> "youtube", subtitle_style |-> ""]

WithId(item, id) ==
    [id |-> id, json_ok |-> item.json_ok, has_project_id |-> item.has_project_id,
     source_type |-> item.source_type, subtitle_style |-> item.subtitle_style]

\* clip lengths in frames: no frame, exactly one report interval, one and a half
ClipFrameChoices == {0, 100, 150}

\* face centres the detector reports, as 2x + w: 0.2, just under 0.5, 0.5, 0.8
CenterChoices == {256, 639, 640, 1024}

\* what the detector returns for one frame
DetectorOutputs ==
    {<<>>} \cup {<<a>> : a \in {256, 1024}} \cup {<<256, 1024>>}

\* transcript lengths
WordCounts == {0, 6}

\* the words the transcriber returns in the pipeline runs: n words of 0.3 s,
\* one every 2.01 s from 0.  The word times are the transcriber's and are not
\* tied to the clip's duration: the sixth word starts at 10.05 s.
Heard(n) == [k \in 1..n |-> Word((k - 1) * 2010, 300)]

\* duration = end_time - start_time in the pipeline runs, in milliseconds
ClipDuration == 10000

\* before generate() has written subtitles.ass
NoSubtitles == [styles |-> <<>>, events |-> <<>>]

\* frame size of the source in the pipeline runs: 1080p landscape (the planner
\* is run on every other size on its own, below)
SourceDims == {<<1920, 1080>>}

\* exit status of the media transform engine
ReturnCodes == {0, 1}

EngineInit ==
    /\ reports = <<>>
    /\ trace = <<>>
    /\ done = <<>>
    /\ clip_frames = 0
    /\ width = 0
    /\ height = 0
    /\ crops = <<>>
    /\ frame_idx = 0
    /\ inspected = 0
    /\ face_detections = <<>>
    /\ speakers = <<>>
    /\ layout_mode = "single"
    /\ calls = <<>>
    /\ temp_video = FALSE
    /\ output = FALSE
    /\ num_words = 0
    /\ subtitles = NoSubtitles
    /\ result = [speakers_detected |-> 0, layout_mode |-> "none"]

JobInit ==
    /\ log = <<>>
    /\ workspace = "none"
    /\ uploaded = FALSE
    /\ fetches = <<>>
    /\ failed_stage = "none"
    /\ exit_kind = "none"

WorkerInit ==
    /\ queue = <<>>
    /\ submitted = 0
    /\ pc = "poll"
    /\ job_data = NoJob
    /\ jobs_processed = 0
    /\ interrupted = FALSE

ResolverIdle ==
    /\ obs = <<>>
    /\ r_done = FALSE
    /\ r_speakers = <<>>
    /\ r_mode = "single"

\* what a run of the planner holds before it has run
NoPlan == [speakers |-> <<>>, mode |-> "none", crops |-> <<>>]

PlannerIdle ==
    /\ src_w = 0
    /\ src_h = 0
    /\ obs_a = <<>>
    /\ obs_b = <<>>
    /\ p_done = FALSE
    /\ plan_a = NoPlan
    /\ plan_b = NoPlan

CaptionIdle ==
    /\ t_words = <<>>
    /\ t_style = ""
    /\ t_timeline = <<>>
    /\ t_done = FALSE
    /\ t_events = <<>>

WrapIdle ==
    /\ wrap_words = <<>>
    /\ wrap_done = FALSE
    /\ wrap_lines = <<>>

SamplerIdle ==
    /\ s_clip_frames = 0
    /\ s_frame_idx = 0
    /\ s_inspected = {}
    /\ s_faces = <<>>
    /\ s_pc = "idle"
    /\ s_mode = "none"

Init ==
    /\ WorkerInit /\ JobInit /\ EngineInit
    /\ ResolverIdle /\ PlannerIdle /\ CaptionIdle /\ WrapIdle /\ SamplerIdle

----------------------------------------------------------------------------
(* run_worker *)

\* a producer pushes a job (LPUSH) while the worker runs
Submit ==
    /\ submitted < MaxJobs
    /\ submitted' = submitted + 1
    /\ queue' = <<submitted + 1>> \o queue
    /\ UNCHANGED <<pc, job_data, jobs_processed, interrupted>>
    /\ UNCHANGED <<jobVars, engineVars, harnessVars>>

\* a faulty variant: the item is read but stays on the list
LeftOnList(q) == q

\* the list after brpop has taken its last item
brpop_rest(q) == SubSeq(q, 1, Len(q) - 1)

\* brpop returns an item: it leaves the list for good.  What the item holds is
\* read here, where the worker first looks at it.  The per-job variables start
\* afresh.
Poll ==
    /\ pc = "poll"
    /\ queue # <<>>
    /\ \E item \in JobItems : job_data' = WithId(item, queue[Len(queue)])
    /\ queue' = brpop_rest(queue)
    /\ pc' = "parse"
    /\ log' = <<>>
    /\ workspace' = "none"
    /\ uploaded' = FALSE
    /\ fetches' = <<>>
    /\ failed_stage' = "none"
    /\ exit_kind' = "none"
    /\ reports' = <<>>
    /\ trace' = <<>>
    /\ done' = <<>>
    /\ clip_frames' = 0
    /\ width' = 0
    /\ height' = 0
    /\ crops' = <<>>
    /\ frame_idx' = 0
    /\ inspected' = 0
    /\ face_detections' = <<>>
    /\ speakers' = <<>>
    /\ layout_mode' = "single"
    /\ calls' = <<>>
    /\ temp_video' = FALSE
    /\ output' = FALSE
    /\ num_words' = 0
    /\ subtitles' = NoSubtitles
    /\ result' = [speakers_detected |-> 0, layout_mode |-> "none"]
    /\ UNCHANGED <<submitted, jobs_processed, interrupted, harnessVars>>

\* json.loads raises JSONDecodeError, or job_data['project_id'] raises KeyError
\* before process_job's try block: the loop logs and continues
RejectJob ==
    /\ pc = "parse"
    /\ ~job_data.json_ok \/ ~job_data.has_project_id
    /\ pc' = "poll"
    /\ UNCHANGED <<queue, submitted, job_data, jobs_processed, interrupted>>
    /\ UNCHANGED <<jobVars, engineVars, harnessVars>>

\* process_job is entered and managed_temp_dir creates the workspace
EnterJob ==
    /\ pc = "parse"
    /\ job_data.json_ok /\ job_data.has_project_id
    /\ workspace' = "exists"
    /\ pc' = "pj_source"
    /\ UNCHANGED <<queue, submitted, job_data, jobs_processed, interrupted>>
    /\ UNCHANGED <<log, fetches, uploaded, failed_stage, exit_kind>>
    /\ UNCHANGED <<engineVars, harnessVars>>

----------------------------------------------------------------------------
(* process_job: fetching the clip *)

WorkerKeep == UNCHANGED <<queue, submitted, job_data, jobs_processed, interrupted>>

\* an exception leaves the try block of process_job for its except clause
Fail(stage) ==
    /\ failed_stage' = stage
    /\ pc' = "pj_except"

\* the first status write, then the branch on source_type
SourceStatus ==
    /\ pc = "pj_source"
    /\ IF job_data.source_type = "youtube"
       THEN /\ log' = Append(log, Processing("downloading_youtube", 5))
            /\ pc' = "yt_clip"
       ELSE /\ log' = Append(log, Processing("downloading_video", 5))
            /\ pc' = "s3_fetch"
    /\ WorkerKeep
    /\ UNCHANGED <<workspace, fetches, uploaded, failed_stage, exit_kind>>
    /\ UNCHANGED <<engineVars, harnessVars>>

\* one step that fetches or cuts the clip, and whether it returned (ok) or raised
Fetch(tool, ok) == [tool |-> tool, ok |-> ok]

\* a faulty variant: a failed clip download fails the job like any other step
AfterClipDownloadFailedIsFatal == "pj_except"

\* where the worker goes when download_youtube_clip raised
AfterClipDownloadFailed == "yt_full"

\* download_youtube_clip: a failure is caught and the fallback runs
YoutubeClip ==
    /\ pc = "yt_clip"
    /\ \E ok \in BOOLEAN :
        /\ fetches' = Append(fetches, Fetch("download_youtube_clip", ok))
        /\ pc' = IF ok THEN "pj_analyze" ELSE AfterClipDownloadFailed
    /\ WorkerKeep
    /\ UNCHANGED <<log, workspace, uploaded, failed_stage, exit_kind>>
    /\ UNCHANGED <<engineVars, harnessVars>>

\* download_youtube_full_and_trim: a failure fails the job
YoutubeFullAndTrim ==
    /\ pc = "yt_full"
    /\ \E ok \in BOOLEAN :
        /\ fetches' = Append(fetches, Fetch("download_youtube_full_and_trim", ok))
        /\ IF ok THEN pc' = "pj_analyze" /\ UNCHANGED failed_stage
                 ELSE Fail("download")
    /\ WorkerKeep
    /\ UNCHANGED <<log, workspace, uploaded, exit_kind>>
    /\ UNCHANGED <<engineVars, harnessVars>>

\* download_from_s3, then the 'extracting_clip' status
FetchFromS3 ==
    /\ pc = "s3_fetch"
    /\ \E ok \in BOOLEAN :
        /\ fetches' = Append(fetches, Fetch("download_from_s3", ok))
        /\ IF ok THEN /\ log' = Append(log, Processing("extracting_clip", 15))
                      /\ pc' = "s3_extract"
                      /\ UNCHANGED failed_stage
                 ELSE Fail("download") /\ UNCHANGED log
    /\ WorkerKeep
    /\ UNCHANGED <<workspace, uploaded, exit_kind>>
    /\ UNCHANGED <<engineVars, harnessVars>>

\* ffmpeg cuts the clip out of the fetched file (check=True)
ExtractClip ==
    /\ pc = "s3_extract"
    /\ \E ok \in BOOLEAN :
        /\ fetches' = Append(fetches, Fetch("extract_clip", ok))
        /\ IF ok THEN pc' = "pj_analyze" /\ UNCHANGED failed_stage
                 ELSE Fail("extract_clip")
    /\ WorkerKeep
    /\ UNCHANGED <<log, workspace, uploaded, exit_kind>>
    /\ UNCHANGED <<engineVars, harnessVars>>

\* the 'analyzing_faces' status, then SmartClipEngine(...) loads the detector
Analyze ==
    /\ pc = "pj_analyze"
    /\ log' = Append(log, Processing("analyzing_faces", 25))
    /\ \E ok \in BOOLEAN :
        IF ok THEN pc' = "e_open" /\ UNCHANGED failed_stage
              ELSE Fail("engine_init")
    /\ WorkerKeep
    /\ UNCHANGED <<workspace, fetches, uploaded, exit_kind>>
    /\ UNCHANGED <<engineVars, harnessVars>>

----------------------------------------------------------------------------
(* SmartClipEngine.process *)

\* report(0.0), then cv2.VideoCapture: a source that does not open raises at
\* once; otherwise the clip window is scoped and face analysis is announced
OpenVideo ==
    /\ pc = "e_open"
    /\ \E ok \in BOOLEAN :
        IF ok
        THEN /\ \E c \in ClipFrameChoices : clip_frames' = c
             /\ \E d \in SourceDims : width' = d[1] /\ height' = d[2]
             /\ Report(<<Milestone(0), Milestone(5), Milestone(10)>>)
             /\ trace' = trace \o <<"open", "sample">>
             /\ done' = Append(done, "open")
             /\ pc' = "e_scan"
             /\ UNCHANGED failed_stage
        ELSE /\ Report(<<Milestone(0)>>)
             /\ trace' = Append(trace, "open")
             /\ Fail("open_video")
             /\ UNCHANGED <<done, clip_frames, width, height>>
    /\ WorkerKeep
    /\ UNCHANGED <<workspace, fetches, uploaded, exit_kind>>
    /\ UNCHANGED <<crops, frame_idx, inspected, face_detections, speakers, layout_mode,
                   calls, temp_video, output, num_words, subtitles, result>>
    /\ UNCHANGED harnessVars

\* YuNetFaceDetector.detect: nothing when the detector handle is missing or the
\* detector found no face, else the centre of every face found
detect(loaded, found) == IF ~loaded THEN <<>> ELSE found

\* frame_idx % sample_interval == 0
IsSampled(f, c) == f % SampleInterval(c) = 0

\* frame_idx % 100 == 0, tested after the increment
IsReportFrame(f) == f % ReportEvery = 0

\* one iteration of the sampling loop with a frame read: detect on a sampled
\* frame, count the frame, report every 100th
ScanFrame ==
    /\ pc = "e_scan"
    /\ frame_idx < clip_frames
    /\ IF IsSampled(frame_idx, clip_frames)
       THEN /\ \E loaded \in BOOLEAN, found \in DetectorOutputs :
                 LET faces == detect(loaded, found) IN
                 /\ Len(face_detections) + Len(faces) <= MaxDetections
                 /\ face_detections' = face_detections \o faces
            /\ inspected' = inspected + 1
       ELSE UNCHANGED <<face_detections, inspected>>
    /\ frame_idx' = frame_idx + 1
    /\ IF IsReportFrame(frame_idx + 1)
       THEN Report(<<ScanProgress(frame_idx + 1, clip_frames)>>)
       ELSE UNCHANGED <<reports, log>>
    /\ WorkerKeep
    /\ UNCHANGED <<pc, workspace, fetches, uploaded, failed_stage, exit_kind>>
    /\ UNCHANGED <<trace, done, clip_frames, width, height, crops, speakers, layout_mode, calls,
                   temp_video, output, num_words, subtitles, result>>
    /\ UNCHANGED harnessVars

\* the loop ends: every frame of the clip was read, or cap.read() returned no
\* frame (break)
LeaveScan ==
    /\ pc = "e_scan"
    /\ pc' = "e_resolve"
    /\ WorkerKeep
    /\ UNCHANGED <<jobVars, engineVars, harnessVars>>

\* report(0.3), the two-bucket clustering, the layout decision, and the
\* reports up to 'Rendering video...'.  The sampling locals are not read again.
Resolve ==
    /\ pc = "e_resolve"
    /\ speakers' = ResolveSpeakers(face_detections)
    /\ layout_mode' = LayoutMode(ResolveSpeakers(face_detections))
    /\ Report(<<Milestone(30), Milestone(35), Milestone(40), Milestone(45)>>)
    /\ trace' = Append(trace, "resolve")
    /\ done' = done \o <<"sample", "resolve">>
    /\ face_detections' = <<>>
    /\ frame_idx' = 0
    /\ inspected' = 0
    /\ pc' = "e_render"
    /\ WorkerKeep
    /\ UNCHANGED <<workspace, fetches, uploaded, failed_stage, exit_kind>>
    /\ UNCHANGED <<clip_frames, width, height, crops, calls, temp_video, output, num_words, subtitles, result>>
    /\ UNCHANGED harnessVars

\* the filter graph of the first crop render
CropFilter(mode, num_speakers) ==
    IF mode = "split" /\ num_speakers >= 2 THEN "split_stack" ELSE "single_crop"

\* a faulty variant: the fallback run is made whatever the first run returned
AlwaysFallback(rc) == TRUE

\* if result.returncode != 0
NeedsFallback(rc) == rc # 0

Call(stage, filter, rc) == [stage |-> stage, filter |-> filter, rc |-> rc]

\* a faulty variant: the caption stages run whatever the caller asked for
AfterRenderAlwaysCaptions(style) == "e_audio"

\* a faulty variant: transcription is started without extracting the audio
AfterRenderSkipsAudio(style) == IF style # "" THEN "e_transcribe" ELSE "e_move"

\* where process() goes after 'Video rendered': if subtitle_style
AfterRender(style) == IF style # "" THEN "e_audio" ELSE "e_move"

\* temp_clip.mp4 exists: report(0.6) and, with captions, report(0.65)
RenderDone ==
    /\ temp_video' = TRUE
    /\ done' = Append(done, "crop_render")
    /\ Report(IF job_data.subtitle_style # ""
              THEN <<Milestone(60), Milestone(65)>> ELSE <<Milestone(60)>>)
    /\ pc' = AfterRender(job_data.subtitle_style)
    /\ UNCHANGED failed_stage

\* the first ffmpeg run of the crop render (no check=True)
Render ==
    /\ pc = "e_render"
    /\ trace' = Append(trace, "crop_render")
    /\ \E rc \in ReturnCodes :
        /\ calls' = Append(calls, Call("crop_render", CropFilter(layout_mode, Len(speakers)), rc))
        /\ crops' = PlanCrops(layout_mode, speakers, width, height)
        /\ IF NeedsFallback(rc)
           THEN /\ pc' = "e_render_fb"
                /\ UNCHANGED <<temp_video, done, reports, log, failed_stage>>
           ELSE RenderDone
    /\ WorkerKeep
    /\ UNCHANGED <<workspace, fetches, uploaded, exit_kind>>
    /\ UNCHANGED <<clip_frames, width, height, frame_idx, inspected, face_detections, speakers,
                   layout_mode, output, num_words, subtitles, result>>
    /\ UNCHANGED harnessVars

\* a faulty variant: the fallback run is never taken as done
NeverSucceeded(rc) == FALSE

\* check=True: the run counts as done exactly when it exits with 0
Succeeded(rc) == rc = 0

\* a faulty variant: check=True is missing, the failure is noted and process()
\* goes on to its end
FallbackFailureIgnored(stage) ==
    /\ failed_stage' = stage
    /\ pc' = "e_finish"

\* what a failed fallback run does: check=True raises CalledProcessError
FallbackFailed(stage) == Fail(stage)

\* the fallback ffmpeg run: plain scale + crop, check=True
RenderFallback ==
    /\ pc = "e_render_fb"
    /\ \E rc \in ReturnCodes :
        /\ calls' = Append(calls, Call("crop_render", "scale_crop", rc))
        /\ IF Succeeded(rc)
           THEN RenderDone
           ELSE /\ FallbackFailed("crop_render")
                /\ UNCHANGED <<temp_video, done, reports, log>>
    /\ WorkerKeep
    /\ UNCHANGED <<workspace, fetches, uploaded, exit_kind>>
    /\ UNCHANGED <<trace, clip_frames, width, height, crops, frame_idx, inspected, face_detections, speakers,
                   layout_mode, output, num_words, subtitles, result>>
    /\ UNCHANGED harnessVars

\* ffmpeg extracts the mono 16 kHz track (check=True)
ExtractAudio ==
    /\ pc = "e_audio"
    /\ trace' = Append(trace, "audio")
    /\ \E ok \in BOOLEAN :
        IF ok THEN /\ done' = Append(done, "audio")
                   /\ pc' = "e_transcribe"
                   /\ UNCHANGED failed_stage
              ELSE Fail("audio") /\ UNCHANGED done
    /\ WorkerKeep
    /\ UNCHANGED <<log, workspace, fetches, uploaded, exit_kind>>
    /\ UNCHANGED <<reports, clip_frames, width, height, crops, frame_idx, inspected, face_detections, speakers,
                   layout_mode, calls, temp_video, output, num_words, subtitles, result>>
    /\ UNCHANGED harnessVars

\* SubtitleGenerator.generate, first half: whisper loads and transcribes; an
\* exception is not caught anywhere in process()
Transcribe ==
    /\ pc = "e_transcribe"
    /\ trace' = Append(trace, "transcribe")
    /\ \E ok \in BOOLEAN :
        IF ok THEN /\ \E n \in WordCounts : num_words' = n
                   /\ done' = Append(done, "transcribe")
                   /\ pc' = "e_write_ass"
                   /\ UNCHANGED failed_stage
              ELSE Fail("transcription") /\ UNCHANGED <<done, num_words>>
    /\ WorkerKeep
    /\ UNCHANGED <<log, workspace, fetches, uploaded, exit_kind>>
    /\ UNCHANGED <<reports, clip_frames, width, height, crops, frame_idx, inspected, face_detections, speakers,
                   layout_mode, calls, temp_video, output, subtitles, result>>
    /\ UNCHANGED harnessVars

\* generate, second half: the subtitle document is built and written; then the
\* audio file is removed and report(0.8) announces the burn
WriteSubtitles ==
    /\ pc = "e_write_ass"
    /\ trace' = Append(trace, "subtitle_doc")
    /\ done' = Append(done, "subtitle_doc")
    /\ subtitles' = SubtitleFile(Heard(num_words), job_data.subtitle_style,
                                 SubtitleTimeline(ClipDuration, layout_mode))
    /\ Report(<<Milestone(80)>>)
    /\ pc' = "e_burn"
    /\ WorkerKeep
    /\ UNCHANGED <<workspace, fetches, uploaded, failed_stage, exit_kind>>
    /\ UNCHANGED <<clip_frames, width, height, crops, frame_idx, inspected, face_detections, speakers,
                   layout_mode, calls, temp_video, output, num_words, result>>
    /\ UNCHANGED harnessVars

\* output.mp4 exists
BurnDone ==
    /\ output' = TRUE
    /\ done' = Append(done, "burn")
    /\ pc' = "e_finish"
    /\ UNCHANGED failed_stage

\* the first ffmpeg run of the caption burn: the ass filter (no check=True)
Burn ==
    /\ pc = "e_burn"
    /\ trace' = Append(trace, "burn")
    /\ \E rc \in ReturnCodes :
        /\ calls' = Append(calls, Call("burn", "ass", rc))
        /\ IF NeedsFallback(rc)
           THEN /\ pc' = "e_burn_fb"
                /\ UNCHANGED <<output, done, failed_stage>>
           ELSE BurnDone
    /\ WorkerKeep
    /\ UNCHANGED <<log, workspace, fetches, uploaded, exit_kind>>
    /\ UNCHANGED <<reports, clip_frames, width, height, crops, frame_idx, inspected, face_detections, speakers,
                   layout_mode, temp_video, num_words, subtitles, result>>
    /\ UNCHANGED harnessVars

\* the fallback ffmpeg run of the burn: the subtitles filter, check=True
BurnFallback ==
    /\ pc = "e_burn_fb"
    /\ \E rc \in ReturnCodes :
        /\ calls' = Append(calls, Call("burn", "subtitles", rc))
        /\ IF Succeeded(rc)
           THEN BurnDone
           ELSE FallbackFailed("burn") /\ UNCHANGED <<output, done>>
    /\ WorkerKeep
    /\ UNCHANGED <<log, workspace, fetches, uploaded, exit_kind>>
    /\ UNCHANGED <<reports, trace, clip_frames, width, height, crops, frame_idx, inspected, face_detections,
                   speakers, layout_mode, temp_video, num_words, subtitles, result>>
    /\ UNCHANGED harnessVars

\* no subtitle style: shutil.move(temp_video, output_path)
MoveToOutput ==
    /\ pc = "e_move"
    /\ output' = TRUE
    /\ temp_video' = FALSE
    /\ pc' = "e_finish"
    /\ WorkerKeep
    /\ UNCHANGED <<jobVars, harnessVars>>
    /\ UNCHANGED <<reports, trace, done, clip_frames, width, height, crops, frame_idx, inspected, face_detections,
                   speakers, layout_mode, calls, num_words, subtitles, result>>

\* temp_clip.mp4 is removed, report(1.0), and process() returns its result
Finish ==
    /\ pc = "e_finish"
    /\ temp_video' = FALSE
    /\ Report(<<Milestone(100)>>)
    /\ trace' = Append(trace, "complete")
    /\ done' = Append(done, "complete")
    /\ result' = [speakers_detected |-> Len(speakers), layout_mode |-> layout_mode]
    /\ pc' = "pj_upload"
    /\ WorkerKeep
    /\ UNCHANGED <<workspace, fetches, uploaded, failed_stage, exit_kind>>
    /\ UNCHANGED <<clip_frames, width, height, crops, frame_idx, inspected, face_detections, speakers,
                   layout_mode, calls, output, num_words, subtitles>>
    /\ UNCHANGED harnessVars

----------------------------------------------------------------------------
(* process_job: publishing, and the ways out *)

\* a faulty variant: a failed upload leaves its object in the bucket
PublishedAnyway(ok) == TRUE

\* whether the artifact is in the bucket once upload_to_s3 has run
Published(ok) == ok

\* the 'uploading' status, then upload_to_s3
Upload ==
    /\ pc = "pj_upload"
    /\ log' = Append(log, Processing("uploading", 92))
    /\ \E ok \in BOOLEAN :
        /\ uploaded' = Published(ok)
        /\ IF ok THEN pc' = "pj_complete" /\ UNCHANGED failed_stage
                 ELSE Fail("upload")
    /\ WorkerKeep
    /\ UNCHANGED <<workspace, fetches, exit_kind>>
    /\ UNCHANGED <<engineVars, harnessVars>>

\* final_status is written and process_job returns it
Complete ==
    /\ pc = "pj_complete"
    /\ log' = Append(log, CompletedStatus)
    /\ exit_kind' = "return"
    /\ pc' = "pj_exit"
    /\ WorkerKeep
    /\ UNCHANGED <<workspace, fetches, uploaded, failed_stage>>
    /\ UNCHANGED <<engineVars, harnessVars>>

\* except Exception: the 'failed' status with the error message, then raise
Except ==
    /\ pc = "pj_except"
    /\ log' = Append(log, FailedStatus(failed_stage))
    /\ exit_kind' = "raise"
    /\ pc' = "pj_exit"
    /\ WorkerKeep
    /\ UNCHANGED <<workspace, fetches, uploaded, failed_stage>>
    /\ UNCHANGED <<engineVars, harnessVars>>

\* a faulty variant: no finally clause, the tree is left behind
NoCleanup(ws) == ws

\* the finally clause of managed_temp_dir: cleanup_temp_dir removes the tree
managed_temp_dir_exit(ws) == IF ws = "exists" THEN "removed" ELSE ws

\* a faulty variant: the job is counted however process_job was left
CountedAnyway(n, kind) == n + 1

\* jobs_processed += 1 follows the call of process_job inside the try block: it
\* runs after a normal return and is skipped by an exception
Counted(n, kind) == IF kind = "return" THEN n + 1 ELSE n

\* the with block is left and control is back in run_worker: a normal return
\* counts the job, an exception is logged; either way the loop continues
ExitJob ==
    /\ pc = "pj_exit"
    /\ workspace' = managed_temp_dir_exit(workspace)
    /\ jobs_processed' = Counted(jobs_processed, exit_kind)
    /\ pc' = "poll"
    /\ UNCHANGED <<queue, submitted, job_data, interrupted>>
    /\ UNCHANGED <<log, fetches, uploaded, failed_stage, exit_kind>>
    /\ UNCHANGED <<engineVars, harnessVars>>

\* where a KeyboardInterrupt can be delivered: the blocking poll, the parse, and
\* the body of the with block
Interruptible ==
    {"poll", "parse", "pj_source", "yt_clip", "yt_full", "s3_fetch", "s3_extract",
     "pj_analyze", "e_open", "e_scan", "e_resolve", "e_render", "e_render_fb",
     "e_audio", "e_transcribe", "e_write_ass", "e_burn", "e_burn_fb", "e_move",
     "e_finish", "pj_upload", "pj_complete", "pj_except"}

\* KeyboardInterrupt is no Exception: process_job's except clause is skipped,
\* the finally clause of managed_temp_dir runs, and run_worker breaks.  The
\* frame of process() is unwound and its sampling locals go with it.
Interrupt ==
    /\ pc \in Interruptible
    /\ interrupted' = TRUE
    /\ workspace' = managed_temp_dir_exit(workspace)
    /\ pc' = "shutdown"
    /\ frame_idx' = 0
    /\ inspected' = 0
    /\ face_detections' = <<>>
    /\ UNCHANGED <<queue, submitted, job_data, jobs_processed>>
    /\ UNCHANGED <<log, fetches, uploaded, failed_stage, exit_kind>>
    /\ UNCHANGED <<reports, trace, done, clip_frames, width, height, crops, speakers, layout_mode, calls,
                   temp_video, output, num_words, subtitles, result>>
    /\ UNCHANGED harnessVars

Next ==
    \/ Submit
    \/ Poll
    \/ RejectJob
    \/ EnterJob
    \/ SourceStatus
    \/ YoutubeClip
    \/ YoutubeFullAndTrim
    \/ FetchFromS3
    \/ ExtractClip
    \/ Analyze
    \/ OpenVideo
    \/ ScanFrame
    \/ LeaveScan
    \/ Resolve
    \/ Render
    \/ RenderFallback
    \/ ExtractAudio
    \/ Transcribe
    \/ WriteSubtitles
    \/ Burn
    \/ BurnFallback
    \/ MoveToOutput
    \/ Finish
    \/ Upload
    \/ Complete
    \/ Except
    \/ ExitJob
    \/ Interrupt

Spec == Init /\ [][Next]_vars

----------------------------------------------------------------------------
(* The resolver on its own: every observation list up to MaxObs long *)

RECURSIVE SeqsUpTo(_, _)
SeqsUpTo(S, n) ==
    IF n = 0 THEN {<<>>}
    ELSE SeqsUpTo(S, n - 1) \cup {Append(q, x) : q \in {r \in SeqsUpTo(S, n - 1) : Len(r) = n - 1}, x \in S}

ResolverInit ==
    /\ WorkerInit /\ JobInit /\ EngineInit /\ PlannerIdle /\ CaptionIdle /\ WrapIdle /\ SamplerIdle
    /\ obs \in SeqsUpTo(CenterChoices, MaxObs)
    /\ r_done = FALSE
    /\ r_speakers = <<>>
    /\ r_mode = "single"

ResolveObservations ==
    /\ ~r_done
    /\ r_speakers' = ResolveSpeakers(obs)
    /\ r_mode' = LayoutMode(ResolveSpeakers(obs))
    /\ r_done' = TRUE
    /\ UNCHANGED <<obs, workerVars, jobVars, engineVars, plannerVars, captionVars, wrapVars, samplerVars>>

ResolverNext == ResolveObservations

ResolverSpec == ResolverInit /\ [][ResolverNext]_vars

----------------------------------------------------------------------------
(* The crop planner on its own: every frame size up to MaxDim square and a    *)
(* few real ones, planned for two observation lists                           *)

\* largest width and height of the small frame sizes
MaxDim == 12
\* observations of the first run
MaxPlanObs == 2

\* face centres as 2x + w: left of the frame (a face box that starts at a
\* negative x), near the left edge, 0.3, 0.5, 0.7, 0.9, right of the frame
PlanCenters == {-20, 10, 384, 640, 896, 1152, 1300}

RealDims == {<<1920, 1080>>, <<1080, 1920>>, <<1280, 720>>, <<640, 360>>}

PlannerDims == ((2..MaxDim) \X (2..MaxDim)) \cup RealDims

\* lines 614-687 of process() for one observation list and one frame size
Plan(xs, w, h) ==
    LET sp == ResolveSpeakers(xs)
    IN  [speakers |-> sp, mode |-> LayoutMode(sp),
         crops |-> PlanCrops(LayoutMode(sp), sp, w, h)]

PlannerInit ==
    /\ WorkerInit /\ JobInit /\ EngineInit /\ ResolverIdle /\ CaptionIdle /\ WrapIdle /\ SamplerIdle
    /\ \E d \in PlannerDims : src_w = d[1] /\ src_h = d[2]
    /\ obs_a \in SeqsUpTo(PlanCenters, MaxPlanObs)
    /\ obs_b \in SeqsUpTo(PlanCenters, 1)
    /\ p_done = FALSE
    /\ plan_a = NoPlan
    /\ plan_b = NoPlan

PlanBoth ==
    /\ ~p_done
    /\ plan_a' = Plan(obs_a, src_w, src_h)
    /\ plan_b' = Plan(obs_b, src_w, src_h)
    /\ p_done' = TRUE
    /\ UNCHANGED <<src_w, src_h, obs_a, obs_b>>
    /\ UNCHANGED <<workerVars, jobVars, engineVars, resolverVars, captionVars, wrapVars, samplerVars>>

PlannerNext == PlanBoth

PlannerSpec == PlannerInit /\ [][PlannerNext]_vars

----------------------------------------------------------------------------
(* The timeline builder on its own: every transcript up to MaxWords words     *)

\* words in a transcript
MaxWords == 6

\* how a word follows the one before it: lead is the time from the previous
\* word's start (from 0 for the first word) to this word's start, dur its length
WordShapes ==
    {[lead |-> 0, dur |-> 300], [lead |-> 50, dur |-> 50],
     [lead |-> 300, dur |-> 300], [lead |-> 1000, dur |-> 200]}

LastStart(ws) == IF ws = <<>> THEN 0 ELSE ws[Len(ws)].start

RECURSIVE Transcripts(_)
Transcripts(n) ==
    IF n = 0 THEN {<<>>}
    ELSE LET shorter == Transcripts(n - 1)
         IN  shorter \cup
             {Append(ws, Word(LastStart(ws) + sh.lead, sh.dur)) :
                 ws \in {v \in shorter : Len(v) = n - 1}, sh \in WordShapes}

\* the six presets and a name that is not in the table
StyleNames == DOMAIN STYLES \cup {"no_such_style"}

\* duration = end_time - start_time of the job, in milliseconds: one that ends
\* after every word of the transcripts, and one that the transcriber's last
\* words can start after
LongClip == 10000
ShortClip == 2000

Timelines ==
    {SubtitleTimeline(LongClip, "single"), SubtitleTimeline(LongClip, "split"),
     SubtitleTimeline(ShortClip, "split")}

CaptionInit ==
    /\ WorkerInit /\ JobInit /\ EngineInit /\ ResolverIdle /\ PlannerIdle /\ WrapIdle /\ SamplerIdle
    /\ t_words \in Transcripts(MaxWords)
    /\ t_style \in StyleNames
    /\ t_timeline \in Timelines
    /\ t_done = FALSE
    /\ t_events = <<>>

BuildTimeline ==
    /\ ~t_done
    /\ t_events' = generate_ass(t_words, t_style, t_timeline)
    /\ t_done' = TRUE
    /\ UNCHANGED <<t_words, t_style, t_timeline>>
    /\ UNCHANGED <<workerVars, jobVars, engineVars, resolverVars, plannerVars, wrapVars, samplerVars>>

CaptionNext == BuildTimeline

CaptionSpec == CaptionInit /\ [][CaptionNext]_vars

----------------------------------------------------------------------------
(* smart_wrap: the lines of one chunk.  A word is its position in the chunk   *)
(* and the length of its text.                                                *)

\* smart_wrap(display_words, max_chars=14)
MaxChars == 14

\* a faulty variant: the separating space is not counted
OverflowsUnspaced(current_line, current_length, word_len, max_chars) ==
    current_length + word_len > max_chars /\ current_line # <<>>

\* current_length + word_len + (1 if current_line else 0) > max_chars and current_line
Overflows(current_line, current_length, word_len, max_chars) ==
    /\ current_length + word_len + (IF current_line # <<>> THEN 1 ELSE 0) > max_chars
    /\ current_line # <<>>

\* one pass of the loop body over lines, current_line and current_length
WrapWord(st, word, max_chars) ==
    LET word_len == word.len
    IN  IF Overflows(st.current_line, st.current_length, word_len, max_chars)
        THEN [lines |-> Append(st.lines, st.current_line),
              current_line |-> <<word>>,
              current_length |-> word_len]
        ELSE LET appended == Append(st.current_line, word)
             IN  [lines |-> st.lines,
                  current_line |-> appended,
                  current_length |-> st.current_length + word_len
                                     + (IF Len(appended) > 1 THEN 1 ELSE 0)]

\* for word in word_list, from the state st
RECURSIVE WrapFrom(_, _, _)
WrapFrom(st, word_list, max_chars) ==
    IF word_list = <<>> THEN st
    ELSE WrapFrom(WrapWord(st, Head(word_list), max_chars), Tail(word_list), max_chars)

smart_wrap(word_list, max_chars) ==
    LET st == WrapFrom([lines |-> <<>>, current_line |-> <<>>, current_length |-> 0],
                       word_list, max_chars)
    IN  IF st.current_line # <<>> THEN Append(st.lines, st.current_line) ELSE st.lines

----------------------------------------------------------------------------
(* smart_wrap on its own: every chunk up to MaxChunkWords words *)

\* words in a chunk handed to smart_wrap
MaxChunkWords == 5

\* len(word['text']): an empty text, short words, half a line, a full line and
\* a word longer than a line
TextLens == {0, 1, 4, 7, 14, 15}

RECURSIVE Chunks(_)
Chunks(n) ==
    IF n = 0 THEN {<<>>}
    ELSE LET shorter == Chunks(n - 1)
         IN  shorter \cup
             {Append(ws, [pos |-> n, len |-> l]) :
                 ws \in {v \in shorter : Len(v) = n - 1}, l \in TextLens}

WrapInit ==
    /\ WorkerInit /\ JobInit /\ EngineInit /\ ResolverIdle /\ PlannerIdle /\ CaptionIdle /\ SamplerIdle
    /\ wrap_words \in Chunks(MaxChunkWords)
    /\ wrap_done = FALSE
    /\ wrap_lines = <<>>

WrapChunk ==
    /\ ~wrap_done
    /\ wrap_lines' = smart_wrap(wrap_words, MaxChars)
    /\ wrap_done' = TRUE
    /\ UNCHANGED wrap_words
    /\ UNCHANGED <<workerVars, jobVars, engineVars, resolverVars, plannerVars, captionVars, samplerVars>>

WrapNext == WrapChunk

WrapSpec == WrapInit /\ [][WrapNext]_vars

----------------------------------------------------------------------------
(* The face sampling loop of process() on clips of every length up to
   MaxClipFrames, each read of a frame succeeding or not *)

\* clip_frames = end_frame - start_frame: negative when the container reports
\* fewer frames than the start of the window
SamplerClips == -1 .. MaxClipFrames

\* what the detector returns for one frame in these runs
SamplerFinds == {<<>>, <<256>>, <<1024>>}

SamplerInit ==
    /\ WorkerInit /\ JobInit /\ EngineInit
    /\ ResolverIdle /\ PlannerIdle /\ CaptionIdle /\ WrapIdle
    /\ s_clip_frames \in SamplerClips
    /\ s_frame_idx = 0
    /\ s_inspected = {}
    /\ s_faces = <<>>
    /\ s_pc = "scan"
    /\ s_mode = "none"

SamplerKeep == UNCHANGED <<workerVars, jobVars, engineVars, resolverVars, plannerVars, captionVars, wrapVars>>

\* one iteration whose cap.read() returned a frame: a frame on the stride goes
\* to the detector, and the frame is counted
SampleRead ==
    /\ s_pc = "scan"
    /\ s_frame_idx < s_clip_frames
    /\ IF IsSampled(s_frame_idx, s_clip_frames)
       THEN /\ \E faces \in SamplerFinds :
                 /\ Len(s_faces) + Len(faces) <= MaxDetections
                 /\ s_faces' = s_faces \o faces
            /\ s_inspected' = s_inspected \cup {s_frame_idx}
       ELSE UNCHANGED <<s_faces, s_inspected>>
    /\ s_frame_idx' = s_frame_idx + 1
    /\ UNCHANGED <<s_clip_frames, s_pc, s_mode>>
    /\ SamplerKeep

\* cap.read() returned no frame: break
SampleBreak ==
    /\ s_pc = "scan"
    /\ s_frame_idx < s_clip_frames
    /\ s_pc' = "resolve"
    /\ UNCHANGED <<s_clip_frames, s_frame_idx, s_inspected, s_faces, s_mode>>
    /\ SamplerKeep

\* the loop condition frame_idx < clip_frames is false
SampleEnd ==
    /\ s_pc = "scan"
    /\ ~(s_frame_idx < s_clip_frames)
    /\ s_pc' = "resolve"
    /\ UNCHANGED <<s_clip_frames, s_frame_idx, s_inspected, s_faces, s_mode>>
    /\ SamplerKeep

\* the clustering and the layout decision on what the loop collected
SampleResolve ==
    /\ s_pc = "resolve"
    /\ s_mode' = LayoutMode(ResolveSpeakers(s_faces))
    /\ s_pc' = "done"
    /\ UNCHANGED <<s_clip_frames, s_frame_idx, s_inspected, s_faces>>
    /\ SamplerKeep

SamplerNext == SampleRead \/ SampleBreak \/ SampleEnd \/ SampleResolve

SamplerSpec == SamplerInit /\ [][SamplerNext]_vars

----------------------------------------------------------------------------
(* Properties *)

HasStatus(st) == \E i \in DOMAIN log : log[i].status = st

Terminals == {i \in DOMAIN log : IsTerminal(log[i])}

Reported(k) == \E i \in DOMAIN reports : FracIs(reports[i], k)

CallsOf(stage) == SelectSeq(calls, LAMBDA c : c.stage = stage)

CaptionsOn == job_data.subtitle_style # ""

\* a job has been taken and the worker is no longer working on it
JobOver == job_data.id # 0 /\ pc \in {"poll", "shutdown"}

\* C1: every job the worker dequeues gets exactly one terminal status
\* ('completed' or 'failed'), and nothing is written for the job after it, on
\* every path: success, a stage failure, a malformed item, an interruption.
C1_ExactlyOneTerminal ==
    /\ JobOver => Cardinality(Terminals) = 1
    /\ \A i \in Terminals : i = Len(log)

StageOrder ==
    <<"open", "sample", "resolve", "crop_render", "audio", "transcribe",
      "subtitle_doc", "burn", "complete">>

StageOrderNoCaptions == <<"open", "sample", "resolve", "crop_render", "complete">>

Rank(st) == CHOOSE i \in DOMAIN StageOrder : StageOrder[i] = st

IsPrefix(a, b) == Len(a) <= Len(b) /\ \A i \in DOMAIN a : a[i] = b[i]

\* C2: the stages of process() are entered in the fixed order open, sampling,
\* resolution, crop render, audio, transcription, subtitle document, burn,
\* completion (the four caption stages are absent when captions are off); none
\* is entered twice or after a later one, and a stage is entered only when
\* every stage entered before it has completed.
C2_StagesInOrder ==
    /\ \A i \in DOMAIN trace : trace[i] \in {StageOrder[k] : k \in DOMAIN StageOrder}
    /\ \A i, j \in DOMAIN trace : i < j => Rank(trace[i]) < Rank(trace[j])
    /\ IsPrefix(trace, IF CaptionsOn THEN StageOrder ELSE StageOrderNoCaptions)
    /\ IsPrefix(done, trace)
    /\ Len(trace) <= Len(done) + 1

C2_Witness == trace = StageOrder /\ done = StageOrder /\ Reported(100)

\* the stage of process() an error name belongs to
TraceStageOf(fs) ==
    CASE fs = "open_video" -> "open"
      [] fs = "crop_render" -> "crop_render"
      [] fs = "audio" -> "audio"
      [] fs = "transcription" -> "transcribe"
      [] fs = "burn" -> "burn"
      [] OTHER -> "none"

\* after a stage failed nothing but the except clause and the way out runs, and
\* the failed stage is the last one entered and is not completed
NothingAfterFailure ==
    failed_stage # "none" =>
        /\ pc \in {"pj_except", "pj_exit", "poll", "shutdown"}
        /\ failed_stage \in {"download", "extract_clip", "engine_init"} => trace = <<>>
        /\ failed_stage = "upload" => trace = IF CaptionsOn THEN StageOrder ELSE StageOrderNoCaptions
        /\ TraceStageOf(failed_stage) # "none" =>
              /\ trace # <<>>
              /\ trace[Len(trace)] = TraceStageOf(failed_stage)
              /\ \A i \in DOMAIN done : done[i] # TraceStageOf(failed_stage)

\* once the except clause has run, the last status is 'failed' with the message
FailureIsReported ==
    (failed_stage # "none" /\ pc \in {"pj_exit", "poll"}) =>
        /\ log # <<>>
        /\ log[Len(log)].status = "failed"
        /\ log[Len(log)].error = failed_stage

\* a source that does not open: one attempt, nothing sampled, nothing rendered
OpenFailureIsImmediate ==
    failed_stage = "open_video" =>
        /\ trace = <<"open">>
        /\ inspected = 0 /\ frame_idx = 0
        /\ calls = <<>>

\* C3 as stated: when any stage fails (upload included) no later stage runs,
\* process() never reports 1.0, no 'completed' is written and 'failed' is.
C3_AsStated ==
    /\ NothingAfterFailure
    /\ failed_stage # "none" => ~Reported(100)
    /\ failed_stage # "none" => ~HasStatus("completed")
    /\ FailureIsReported
    /\ OpenFailureIsImmediate

\* C3, amended: as stated, except that 1.0 has been reported exactly when the
\* failing stage is the upload, which runs after process() has returned.
C3_FailureStopsPipeline ==
    /\ NothingAfterFailure
    /\ failed_stage # "none" => (Reported(100) <=> failed_stage = "upload")
    /\ failed_stage # "none" => ~HasStatus("completed")
    /\ FailureIsReported
    /\ OpenFailureIsImmediate

C3_Witness ==
    /\ failed_stage = "transcription"
    /\ pc = "poll"
    /\ HasStatus("failed")

FallbackFilter(stage) == IF stage = "crop_render" THEN "scale_crop" ELSE "subtitles"

PrimaryFilters(stage) ==
    IF stage = "crop_render" THEN {"split_stack", "single_crop"} ELSE {"ass"}

FallbackPending(stage) == pc = (IF stage = "crop_render" THEN "e_render_fb" ELSE "e_burn_fb")

\* C4: in the crop render and in the caption burn the transform engine runs at
\* most twice; the second run is made if and only if the first returned
\* non-zero (unless the job is interrupted in between), it uses the degraded
\* filter, and when it fails too the stage raises with no third run.
C4_AtMostOneRetry ==
    \A stage \in {"crop_render", "burn"} :
        LET cs == CallsOf(stage) IN
        /\ Len(cs) <= 2
        /\ Len(cs) >= 1 => cs[1].filter \in PrimaryFilters(stage)
        /\ Len(cs) = 2 => cs[1].rc # 0 /\ cs[2].filter = FallbackFilter(stage)
        /\ (Len(cs) = 1 /\ cs[1].rc # 0) => (FallbackPending(stage) \/ interrupted)
        /\ (Len(cs) = 2 /\ cs[2].rc # 0) => failed_stage = stage
        /\ failed_stage = stage => (Len(cs) = 2 /\ cs[2].rc # 0)

C4_Witness ==
    /\ Len(CallsOf("crop_render")) = 1
    /\ Len(CallsOf("burn")) = 2
    /\ failed_stage = "burn"

\* C5: with a split layout, when the split-screen render returns non-zero and
\* the fallback render succeeds, the job does not fail in the crop render:
\* 'Video rendered' (0.6) is reported and process() goes on as after a first
\* render that succeeded.
C5_SplitFailureIsAbsorbed ==
    LET cs == CallsOf("crop_render") IN
    (/\ layout_mode = "split"
     /\ Len(cs) = 2
     /\ cs[1].filter = "split_stack" /\ cs[1].rc # 0
     /\ cs[2].rc = 0)
    => /\ failed_stage # "crop_render"
       /\ Reported(60)
       /\ \E i \in DOMAIN done : done[i] = "crop_render"
       /\ (trace[Len(trace)] = "crop_render" /\ ~output /\ pc # "shutdown") =>
             /\ temp_video
             /\ pc = IF CaptionsOn THEN "e_audio" ELSE "e_move"
             /\ FracIs(reports[Len(reports)], IF CaptionsOn THEN 65 ELSE 60)

C5_Witness ==
    /\ layout_mode = "split"
    /\ Len(CallsOf("crop_render")) = 2
    /\ CallsOf("crop_render")[2].rc = 0
    /\ Reported(100)

C8_AsStated ==
    \A i, j \in DOMAIN log : i < j => log[i].progress <= log[j].progress

\* C8, amended: the progress never decreases from one status write to a later
\* one that is not the 'failed' report; the 'failed' report carries 0.
C8_ProgressMonotoneUntilFailure ==
    /\ \A i, j \in DOMAIN log :
          (i < j /\ log[j].status # "failed") => log[i].progress <= log[j].progress
    /\ \A i \in DOMAIN log : log[i].status = "failed" => log[i].progress = 0

C8_Witness ==
    /\ log # <<>>
    /\ log[Len(log)].status = "completed"
    /\ \E i \in DOMAIN reports : reports[i].den # 100

IsScanReport(r) == r.den # 100

\* C9: every fraction passed to the progress sink is in [0,1], the fractions of
\* a run never decrease, the scanning reports stay in [0.1, 0.3], 0.6 comes only
\* after a crop render succeeded and 1.0 only after the output exists.
C9_FractionsMonotone ==
    /\ \A i \in DOMAIN reports :
          FracLeq(Milestone(0), reports[i]) /\ FracLeq(reports[i], Milestone(100))
    /\ \A i, j \in DOMAIN reports : i < j => FracLeq(reports[i], reports[j])
    /\ \A i \in DOMAIN reports :
          IsScanReport(reports[i]) =>
              FracLeq(Milestone(10), reports[i]) /\ FracLeq(reports[i], Milestone(30))
    /\ Reported(60) => \E c \in DOMAIN calls : calls[c].stage = "crop_render" /\ calls[c].rc = 0
    /\ Reported(100) => output

BothSides ==
    /\ \E i \in DOMAIN obs : 2 * obs[i] < 2 * DetectW
    /\ \E i \in DOMAIN obs : 2 * obs[i] >= 2 * DetectW

RECURSIVE SumAt(_)
SumAt(I) == IF I = {} THEN 0 ELSE LET i == CHOOSE k \in I : TRUE IN obs[i] + SumAt(I \ {i})

\* x is the arithmetic mean of the observations at the indices I, each
\* observation being obs[i] / (2 * 640)
IsMeanOf(x, I) ==
    /\ x.den > 0
    /\ x.num * (Cardinality(I) * 2 * DetectW) = SumAt(I) * x.den

\* C10: an observation list with a centre below 0.5 and a centre at or above 0.5
\* resolves to 'split' with two speakers, whose positions are the mean of the
\* centres below 0.5 and the mean of the centres at or above 0.5.
C10_SplitMeans ==
    (r_done /\ BothSides) =>
        /\ r_mode = "split"
        /\ Len(r_speakers) = 2
        /\ IsMeanOf(r_speakers[1].x_position, {i \in DOMAIN obs : 2 * obs[i] < 2 * DetectW})
        /\ IsMeanOf(r_speakers[2].x_position, {i \in DOMAIN obs : 2 * obs[i] >= 2 * DetectW})

C10_Witness ==
    /\ r_done /\ BothSides /\ Len(obs) = 3
    /\ \E i \in DOMAIN obs : obs[i] = DetectW
    /\ \E i \in DOMAIN obs : obs[i] = 639

AllBelowHalf == \A i \in DOMAIN obs : 2 * obs[i] < 2 * DetectW

AllAtOrAboveHalf == \A i \in DOMAIN obs : 2 * obs[i] >= 2 * DetectW

OneSpeakerSingle == r_mode = "single" /\ Len(r_speakers) = 1

\* C11 as stated: every observation list whose centres are all below 0.5, or
\* all at or above 0.5, resolves to 'single' with one speaker (the empty list,
\* of which both are true, included).
C11_AsStated ==
    (r_done /\ (AllBelowHalf \/ AllAtOrAboveHalf)) => OneSpeakerSingle

\* C11, amended: every non-empty observation list whose centres are all below
\* 0.5, or all at or above 0.5, resolves to 'single' with one speaker.
C11_OneSideIsSingle ==
    (r_done /\ obs # <<>> /\ (AllBelowHalf \/ AllAtOrAboveHalf)) => OneSpeakerSingle

C11_Witness ==
    /\ r_done /\ Len(obs) = 3 /\ AllAtOrAboveHalf
    /\ \E i \in DOMAIN obs : obs[i] = DetectW
    /\ OneSpeakerSingle

\* r is the centred aspect-fit crop of a W x H frame for the target 9:16: the
\* largest 9:16 rectangle with integer sides that keeps one side of the frame
\* whole, its margins on the other axis equal up to one pixel
IsCentredAspectFit(r, W, H) ==
    IF 16 * W > 9 * H
    THEN /\ r.h = H /\ r.y = 0
         /\ 16 * r.w <= 9 * H /\ 9 * H < 16 * (r.w + 1)
         /\ 2 * r.x <= W - r.w /\ W - r.w <= 2 * r.x + 1
    ELSE /\ r.w = W /\ r.x = 0
         /\ 9 * r.h <= 16 * W /\ 16 * W < 9 * (r.h + 1)
         /\ 2 * r.y <= H - r.h /\ H - r.h <= 2 * r.y + 1

\* the step that resolves the speakers of a clip in which no face was observed
NoFaceResolved ==
    (pc = "e_resolve" /\ pc' # pc /\ face_detections = <<>>) =>
        \/ pc' = "shutdown"
        \/ /\ pc' = "e_render"
           /\ failed_stage' = "none"
           /\ speakers' = <<>>
           /\ layout_mode' = "single"

\* the step that plans the crop of a clip with no speaker
NoFaceCrop ==
    (pc = "e_render" /\ pc' # pc /\ pc' # "shutdown" /\ speakers = <<>>) =>
        /\ Len(crops') = 1
        /\ IsCentredAspectFit(crops'[1], width, height)
        /\ calls'[Len(calls')].filter = "single_crop"
        /\ failed_stage' = "none"

\* C12: when no face was observed in any sampled frame (nothing detected, or no
\* detector handle), resolving does not fail and gives no speaker and the
\* 'single' layout, and the crop then planned for the render is the centred
\* aspect-fit rectangle of the source frame.
C12_NoFaceIsSingle == [][NoFaceResolved /\ NoFaceCrop]_vars

C12_Witness ==
    /\ clip_frames > 0
    /\ \E i \in DOMAIN done : done[i] = "resolve"
    /\ speakers = <<>>
    /\ result.speakers_detected = 0 /\ result.layout_mode = "single"
    /\ Len(crops) = 1 /\ IsCentredAspectFit(crops[1], width, height)
    /\ HasStatus("completed")

Resolved == \E i \in DOMAIN done : done[i] = "resolve"

\* at most two speakers, and the layout is 'split' exactly for two or more
LayoutFollowsSpeakers ==
    /\ Len(speakers) <= 2
    /\ layout_mode \in {"single", "split"}
    /\ layout_mode = "split" <=> Len(speakers) >= 2

\* what process() returns is what was resolved
ResultIsResolved ==
    result.layout_mode # "none" =>
        /\ Resolved
        /\ result.layout_mode = layout_mode
        /\ result.speakers_detected = Len(speakers)

\* from the resolution on, no step of the job changes the speakers or the layout
LayoutIsFixed ==
    (Resolved /\ job_data'.id = job_data.id /\ pc' # "parse") =>
        /\ speakers' = speakers
        /\ layout_mode' = layout_mode

\* C13: in every run there are at most two speaker positions, the layout is
\* 'split' if and only if there are two or more speakers, the result reports the
\* layout and the speaker count that were resolved before the crop render, and
\* nothing changes them afterwards.
C13_LayoutResolvedOnce ==
    [][/\ LayoutFollowsSpeakers /\ LayoutFollowsSpeakers'
       /\ ResultIsResolved /\ ResultIsResolved'
       /\ LayoutIsFixed]_vars

C13_Witness ==
    /\ result.layout_mode = "split"
    /\ result.speakers_detected = 2
    /\ Len(CallsOf("crop_render")) = 2
    /\ HasStatus("completed")

\* every crop rectangle planned in the two runs
PlannedCrops ==
    {plan_a.crops[i] : i \in DOMAIN plan_a.crops} \cup {plan_b.crops[i] : i \in DOMAIN plan_b.crops}

InsideFrame(r, W, H) ==
    /\ r.w >= 1 /\ r.h >= 1
    /\ 0 <= r.x /\ r.x <= W - r.w
    /\ 0 <= r.y /\ r.y <= H - r.h

\* C14: every crop rectangle the planner produces, in single and in split mode,
\* for every source width and height of at least 2 and every speaker position,
\* lies inside the source frame and is at least one pixel wide and high.
C14_CropsInsideFrame ==
    p_done => /\ PlannedCrops # {}
              /\ \A r \in PlannedCrops : InsideFrame(r, src_w, src_h)

C14_Witness ==
    /\ p_done /\ plan_a.mode = "split"
    /\ src_w % 2 = 1
    /\ plan_a.crops[1].x = 0
    /\ plan_a.crops[2].x = src_w - plan_a.crops[2].w

\* the two margins a crop leaves on an axis differ by at most one pixel
EvenMargins(offset, size, total) ==
    LET far == total - size - offset
    IN  offset - far <= 1 /\ far - offset <= 1

SingleCropAsSpecified(r, W, H) ==
    /\ IsCentredAspectFit(r, W, H)
    /\ r.w = W \/ r.h = H
    /\ EvenMargins(r.x, r.w, W)
    /\ EvenMargins(r.y, r.h, H)

IsClampedTrunc(x, n, d, hi) ==
    \/ x = 0 /\ n < d
    \/ x = hi /\ n >= hi * d
    \/ 0 < x /\ x < hi /\ x * d <= n /\ n < (x + 1) * d

\* r is the split crop of the speaker at position pos in a W x H frame
SplitCropAsSpecified(r, pos, W, H) ==
    /\ 2 * r.w <= W /\ W <= 2 * r.w + 1
    /\ r.h = H /\ r.y = 0
    /\ \E half \in {r.w \div 2} :
          /\ 2 * half <= r.w /\ r.w <= 2 * half + 1
          /\ IsClampedTrunc(r.x, pos.num * W - half * pos.den, pos.den, W - r.w)

\* C17: in split mode each of the two crops has width floor(W/2), the full
\* height, y = 0 and x = clamp(trunc(x_position * W - floor(w/2)), 0, W - w) for
\* the position of its speaker: centred on the speaker's pixel column unless
\* that leaves the frame, then moved to the nearest edge.
C17_SplitCropFollowsSpeaker ==
    (p_done /\ plan_a.mode = "split") =>
        /\ Len(plan_a.crops) = 2 /\ Len(plan_a.speakers) = 2
        /\ \A k \in 1..2 :
              SplitCropAsSpecified(plan_a.crops[k], plan_a.speakers[k].x_position, src_w, src_h)

C17_Witness ==
    /\ p_done /\ plan_a.mode = "split"
    /\ src_w = 1920 /\ src_h = 1080
    /\ plan_a.crops = <<[w |-> 960, h |-> 1080, x |-> 96, y |-> 0],
                        [w |-> 960, h |-> 1080, x |-> 864, y |-> 0]>>

\* words_per_display of the style in force
Wpd == StyleOf(t_style).words_per_display

RECURSIVE WordsOfEvents(_)
WordsOfEvents(es) == IF es = <<>> THEN <<>> ELSE Head(es).words \o WordsOfEvents(Tail(es))

\* m = ceil(n / k) for k > 0
IsCeilOf(m, n, k) == m * k >= n /\ (m = 0 \/ (m - 1) * k < n)

\* C18: the caption chunks partition the transcript: their word runs,
\* concatenated in order, are the word sequence itself; every chunk but the last
\* has exactly words_per_display words, the last between 1 and
\* words_per_display; and there are ceil(n / words_per_display) timed events.
C18_ChunksPartitionWords ==
    t_done =>
        /\ WordsOfEvents(t_events) = t_words
        /\ \A k \in DOMAIN t_events :
              /\ k < Len(t_events) => Len(t_events[k].words) = Wpd
              /\ 1 <= Len(t_events[k].words) /\ Len(t_events[k].words) <= Wpd
        /\ IsCeilOf(Len(t_events), Len(t_words), Wpd)

C18_Witness ==
    /\ t_done /\ t_style = "warm_italic"
    /\ Len(t_words) = 6
    /\ Len(t_events) = 2
    /\ Len(t_events[1].words) = 5 /\ Len(t_events[2].words) = 1

\* the transcript has start <= end in every word and non-decreasing starts
WellTimed ==
    /\ \A i \in DOMAIN t_words : t_words[i].start <= t_words[i].end
    /\ \A i \in 1..(Len(t_words) - 1) : t_words[i].start <= t_words[i + 1].start

\* the pairs of adjacent events
Adjacent == 1..(Len(t_events) - 1)

\* C19 as stated: under every style, adjacent chunks are time-disjoint:
\* display_end of a chunk is at most display_start of the next one.
C19_AsStated ==
    (t_done /\ WellTimed) =>
        \A k \in Adjacent : t_events[k].display_end <= t_events[k + 1].display_start

\* C19, amended: display_end of a chunk is at most display_start of the next
\* one, unless the style is a multi-word style and the minimum-duration rule
\* has set the chunk's display_end to its display_start + 0.5 s.
C19_DisjointUnlessExtended ==
    (t_done /\ WellTimed) =>
        \A k \in Adjacent :
            \/ t_events[k].display_end <= t_events[k + 1].display_start
            \/ /\ Wpd > 1
               /\ t_events[k].display_end = t_events[k].display_start + 500
               /\ t_events[k + 1].display_start < t_events[k].display_start + 500

C19_Witness ==
    /\ t_done /\ WellTimed /\ Wpd > 1
    /\ Len(t_events) = 2
    /\ t_events[1].display_end - t_events[1].display_start > 500
    /\ t_events[1].display_end = t_events[2].display_start - 50

\* the transcript [hi 0.0-0.3, there 0.3-0.6]
HiThere == <<[start |-> 0, end |-> 300], [start |-> 300, end |-> 600]>>

\* C20: with a single-word style, display_end of every chunk but the last is
\* exactly the start of the next chunk's word, and display_end of the last chunk
\* is its word's end + 0.25 s; for [hi 0.0-0.3, there 0.3-0.6] that is two
\* chunks ending at 0.3 and 0.85.
C20_SingleWordZeroGap ==
    (t_done /\ Wpd = 1) =>
        /\ Len(t_events) = Len(t_words)
        /\ \A k \in Adjacent :
              /\ t_events[k].display_end = t_words[k + 1].start
              /\ t_events[k].display_end = t_events[k + 1].display_start
        /\ t_events # <<>> =>
              t_events[Len(t_events)].display_end = t_words[Len(t_words)].end + 250
        /\ t_words = HiThere =>
              /\ Len(t_events) = 2
              /\ t_events[1].display_end = 300
              /\ t_events[2].display_end = 850

C20_Witness ==
    /\ t_done /\ t_style = "karaoke_snap"
    /\ t_words = HiThere
    /\ Len(t_events) = 2
    /\ t_events[1].display_end = 300 /\ t_events[2].display_end = 850


\* the time a formatted time stands for, in hundredths of a second
Shown(str) == (str.h * 60 + str.m) * 6000 + str.cs

\* C21: with a multi-word style (words_per_display > 1) every emitted chunk, the
\* last one and a last chunk of a single word included, has display_end -
\* display_start >= 0.5 s, in the chunk's times and in the Start and End the
\* document shows; the chunks of a single-word style keep the display_end
\* computed before the minimum-duration rule.
C21_MultiWordAtLeastHalfSecond ==
    t_done =>
        /\ Wpd > 1 =>
              \A k \in DOMAIN t_events :
                 /\ t_events[k].display_end - t_events[k].display_start >= 500
                 /\ Shown(t_events[k].end_str) - Shown(t_events[k].start_str) >= 50
        /\ Wpd = 1 =>
              \A k \in DOMAIN t_events :
                 /\ ~t_events[k].extended
                 /\ t_events[k].display_end =
                       IF k < Len(t_words) THEN t_words[k + 1].start
                       ELSE t_words[k].end + 250

C21_Witness ==
    /\ t_done /\ Wpd > 1
    /\ Len(t_events) = 2
    /\ Len(t_events[2].words) = 1
    /\ t_events[2].words[1].end - t_events[2].words[1].start = 50
    /\ t_events[2].display_end - t_events[2].display_start = 500
    /\ Shown(t_events[2].end_str) - Shown(t_events[2].start_str) = 50

FirstOf(k) == t_events[k].words[1]

LastOf(k) == t_events[k].words[Len(t_events[k].words)]

Least(a, b) == IF a < b THEN a ELSE b

\* display_end of chunk k as the timing rule states it, before the minimum
\* duration is looked at
Computed(k) ==
    IF k < Len(t_events)
    THEN Least(LastOf(k).end + 100, FirstOf(k + 1).start - 50)
    ELSE LastOf(k).end + 250

\* display_start and display_end of chunk k of a multi-word style
MultiWordTimed(k) ==
    /\ t_events[k].display_start = FirstOf(k).start
    /\ t_events[k].display_end =
          IF Computed(k) < t_events[k].display_start + 500
          THEN t_events[k].display_start + 500
          ELSE Computed(k)

\* C22: for a multi-word style, display_start of a chunk is the start of its
\* first word, and display_end is min(last_word.end + 0.1,
\* next_chunk_first_word.start - 0.05) for a chunk followed by another and
\* last_word.end + 0.25 for the last chunk, replaced by display_start + 0.5
\* exactly when that value is less than display_start + 0.5.
C22_MultiWordTimes ==
    (t_done /\ Wpd > 1) => \A k \in DOMAIN t_events : MultiWordTimed(k)

C22_Witness ==
    /\ t_done /\ Wpd > 1
    /\ Len(t_events) = 2
    /\ t_events[1].display_end = LastOf(1).end + 100
    /\ t_events[1].display_end < FirstOf(2).start - 50
    /\ t_events[1].display_end >= t_events[1].display_start + 500
    /\ t_events[2].display_end = LastOf(2).end + 250
    /\ t_events[2].display_end > t_events[2].display_start + 500

RECURSIVE Concat(_)
Concat(lines) == IF lines = <<>> THEN <<>> ELSE Head(lines) \o Concat(Tail(lines))

RECURSIVE TotalLen(_)
TotalLen(line) == IF line = <<>> THEN 0 ELSE Head(line).len + TotalLen(Tail(line))

\* the length of the words of a line joined by single spaces
JoinedLen(line) == TotalLen(line) + (Len(line) - 1)

\* C23: line wrapping of a chunk is greedy and lossless: the lines concatenated
\* in order are the chunk's words in order, no line is empty, no word is split,
\* a word starts a new line only when appending it with one separating space
\* to the current non-empty line would exceed 14 characters, and so every line
\* is at most 14 long unless it is one word longer than 14.
C23_WrapGreedyLossless ==
    wrap_done =>
        /\ Concat(wrap_lines) = wrap_words
        /\ \A l \in DOMAIN wrap_lines :
              /\ wrap_lines[l] # <<>>
              /\ \A j \in DOMAIN wrap_lines[l] : wrap_lines[l][j] \in {wrap_words[i] : i \in DOMAIN wrap_words}
              /\ l > 1 => JoinedLen(wrap_lines[l - 1]) + 1 + wrap_lines[l][1].len > 14
              /\ \/ JoinedLen(wrap_lines[l]) <= 14
                 \/ Len(wrap_lines[l]) = 1 /\ wrap_lines[l][1].len > 14

C23_Witness ==
    /\ wrap_done
    /\ Len(wrap_words) = 5
    /\ Len(wrap_lines) = 3
    /\ Len(wrap_lines[1]) = 3 /\ JoinedLen(wrap_lines[1]) = 14
    /\ Len(wrap_lines[2]) = 1 /\ wrap_lines[2][1].len = 15

\* the layout mode the pipeline resolved for the clip
ClipLayout == t_timeline[1].mode

\* C24: the region of every caption event is MiddleCenter if the style asks
\* for vertical centering, otherwise Center if the layout mode at the chunk's
\* start time is split, otherwise Bottom; the layout holds for the whole clip,
\* so under a split layout every chunk of a non-centering style gets Center,
\* whatever its start time.
C24_RegionByStyleAndLayout ==
    t_done =>
        \A k \in DOMAIN t_events :
           /\ t_events[k].style_name \in {"MiddleCenter", "Center", "Bottom"}
           /\ t_events[k].style_name = "MiddleCenter" <=> StyleOf(t_style).center_vertical
           /\ ~StyleOf(t_style).center_vertical =>
                 (t_events[k].style_name = "Center" <=> ClipLayout = "split")

\* display_start and display_end of chunk k as the timing rules give them
ChunkTimed(k) ==
    IF Wpd > 1 THEN MultiWordTimed(k)
    ELSE /\ t_events[k].display_start = t_words[k].start
         /\ t_events[k].display_end =
               IF k < Len(t_words) THEN t_words[k + 1].start ELSE t_words[k].end + 250

\* C25: for every word of every chunk the animation timing uses a visible
\* duration of at least 150 ms: the word's end offset minus its start offset,
\* both whole milliseconds from the chunk's display_start, is at least 150, and
\* is start + 150 when the word is spoken for less; display_start and
\* display_end of the chunk are what the timing rules give, unchanged.
C25_WordVisibleAtLeast150 ==
    t_done =>
        \A k \in DOMAIN t_events :
           /\ ChunkTimed(k)
           /\ \A j \in DOMAIN t_events[k].words :
                 LET word == t_events[k].words[j]
                     from_start == word.start - t_events[k].display_start
                     to_end == word.end - t_events[k].display_start
                 IN  /\ t_events[k].timing[j] # {}
                     /\ \A tm \in t_events[k].timing[j] :
                           /\ tm.word_start_ms \in {from_start - 1, from_start}
                           /\ tm.word_end_ms - tm.word_start_ms >= 150
                           /\ word.end - word.start < 150 =>
                                 tm.word_end_ms = tm.word_start_ms + 150
                           /\ word.end - word.start > 150 =>
                                 tm.word_end_ms \in {to_end - 1, to_end}

C25_Witness ==
    /\ t_done /\ Wpd > 1
    /\ Len(t_events) = 1 /\ Len(t_events[1].words) = 2
    /\ t_events[1].words[2].end - t_events[1].words[2].start = 50
    /\ t_events[1].words[2].start - t_events[1].display_start = 50
    /\ [word_start_ms |-> 49, word_end_ms |-> 199] \in t_events[1].timing[2]
    /\ t_events[1].display_end = t_events[1].display_start + 500

Entered(stage) == \E i \in DOMAIN trace : trace[i] = stage

Completed(stage) == \E i \in DOMAIN done : done[i] = stage

\* the document of a transcript without words
HeaderOnly == [styles |-> <<"Bottom", "Center", "MiddleCenter">>, events |-> <<>>]

\* C26: a transcript with zero words is not an error: the timeline builder
\* returns a subtitle document with the three region style blocks (Bottom,
\* Center, MiddleCenter) and zero timed events, and the pipeline goes on to the
\* caption burn stage.
C26_EmptyTranscriptIsNoError ==
    (Completed("transcribe") /\ num_words = 0) =>
        /\ failed_stage \notin {"transcription", "subtitle_doc"}
        /\ Completed("subtitle_doc") => subtitles = HeaderOnly
        /\ \/ pc \in {"e_write_ass", "shutdown"}
           \/ Completed("subtitle_doc") /\ (pc = "e_burn" \/ Entered("burn"))

C26_Witness ==
    /\ Completed("transcribe") /\ num_words = 0
    /\ subtitles = HeaderOnly
    /\ Completed("burn") /\ output

AnimationFamilies ==
    {"scale_color", "pop_in", "fade_in", "punch_return", "snap_in", "glow_highlight"}

\* every preset's animation-type tag is one of the six families, and so is the
\* tag of the style a generator works with, whatever name it was given
TagsInFamilies ==
    /\ \A name \in DOMAIN STYLES : STYLES[name].animation_type \in AnimationFamilies
    /\ StyleOf(t_style) \in {STYLES[name] : name \in DOMAIN STYLES}
    /\ StyleOf(t_style).animation_type \in AnimationFamilies

CaptionStages == {"audio", "transcribe", "subtitle_doc", "burn"}

\* the report that follows 'Video rendered' (0.6), if any, is 1.0
DoneFollowsRendered ==
    \A i \in DOMAIN reports :
       (FracIs(reports[i], 60) /\ i < Len(reports)) =>
           (i + 1 = Len(reports) /\ FracIs(reports[i + 1], 100))

\* C29: with captions disabled (no subtitle style) the pipeline never runs
\* audio extraction, transcription or the caption burn: after 'Video rendered'
\* (0.6) the crop-rendered video becomes the output and the next report is
\* 1.0.  With captions enabled a transcription error is fatal: no caption burn
\* is attempted and the output file is never produced.
C29_CaptionsOffOrFatal ==
    /\ ~CaptionsOn =>
          /\ \A st \in CaptionStages : ~Entered(st)
          /\ CallsOf("burn") = <<>>
          /\ subtitles = NoSubtitles
          /\ DoneFollowsRendered
          /\ output => (Completed("crop_render") /\ Reported(60) /\ ~temp_video)
          /\ Reported(100) => output
    /\ (CaptionsOn /\ failed_stage = "transcription") =>
          /\ ~Entered("subtitle_doc") /\ ~Entered("burn")
          /\ CallsOf("burn") = <<>>
          /\ ~output
          /\ ~Reported(100)

C29_Witness ==
    /\ ~CaptionsOn /\ job_data.id # 0
    /\ Completed("crop_render") /\ Completed("complete")
    /\ output
    /\ Len(reports) >= 2
    /\ FracIs(reports[Len(reports) - 1], 60) /\ FracIs(reports[Len(reports)], 100)

FetchesOf(tool) == SelectSeq(fetches, LAMBDA f : f.tool = tool)

Ran(tool) == FetchesOf(tool) # <<>>

Raised(tool) == \E i \in DOMAIN fetches : fetches[i].tool = tool /\ ~fetches[i].ok

FetchTools ==
    {"download_youtube_clip", "download_youtube_full_and_trim", "download_from_s3",
     "extract_clip"}

\* the stages process_job announces itself
WorkerStages ==
    {"downloading_youtube", "downloading_video", "extracting_clip", "analyzing_faces",
     "uploading"}

Announced(stage) == SelectSeq(log, LAMBDA st : st.stage = stage)

\* the job is failing or has failed at the given stage, and never got to the engine
FailsAt(stage) ==
    /\ failed_stage = stage
    /\ trace = <<>> /\ ~uploaded
    /\ pc \in {"pj_except", "pj_exit", "poll", "shutdown"}
    /\ pc = "poll" => HasStatus("failed")

Dequeued == submitted - Len(queue)

\* the positions of process_job inside the body of `with managed_temp_dir`
WithBody ==
    {"pj_source", "yt_clip", "yt_full", "s3_fetch", "s3_extract", "pj_analyze",
     "e_open", "e_scan", "e_resolve", "e_render", "e_render_fb", "e_audio",
     "e_transcribe", "e_write_ass", "e_burn", "e_burn_fb", "e_move", "e_finish",
     "pj_upload", "pj_complete", "pj_except", "pj_exit"}

\* process_job for the job last taken has returned or raised, or never started
Settled ==
    \/ job_data.id = 0
    \/ ~job_data.json_ok \/ ~job_data.has_project_id
    \/ exit_kind \in {"return", "raise"}

C32_LeftCropFirst ==
    (p_done /\ plan_a.mode = "split") =>
        /\ Len(plan_a.crops) = 2 /\ Len(plan_a.speakers) = 2
        /\ plan_a.crops[1].x <= plan_a.crops[2].x
        /\ \E k \in 1..2 :
              LET near == plan_a.speakers[k].x_position
                  far == plan_a.speakers[3 - k].x_position
              IN  /\ near.num * far.den <= far.num * near.den
                  /\ SplitCropAsSpecified(plan_a.crops[1], near, src_w, src_h)
                  /\ SplitCropAsSpecified(plan_a.crops[2], far, src_w, src_h)

C32_Witness ==
    /\ p_done /\ plan_a.mode = "split"
    /\ src_w = 1920 /\ src_h = 1080
    /\ plan_a.speakers[1].x_position.num * plan_a.speakers[2].x_position.den
          < plan_a.speakers[2].x_position.num * plan_a.speakers[1].x_position.den
    /\ plan_a.crops[1].x < plan_a.crops[2].x

\* st = max(1, floor(n / 50)), stated without division
IsStrideOf(st, n) ==
    /\ st >= 1
    /\ n < 50 => st = 1
    /\ n >= 50 => 50 * st <= n /\ n < 50 * (st + 1)

\* every frame of the clip was read: the loop ended on its condition
AllRead == s_pc = "done" /\ s_frame_idx >= s_clip_frames

\* C33: the sampler inspects exactly the frames read whose index is a multiple
\* of stride = max(1, floor(clip_frames / 50)); when all n = clip_frames frames
\* could be read, it inspects at least 50 and fewer than 100 frames for
\* n >= 50, every frame for n < 50, and for n <= 0 none, the layout then being
\* 'single'.
C33_SamplerStride ==
    s_pc # "idle" =>
        /\ \E st \in 1..(MaxClipFrames + 1) :
              /\ IsStrideOf(st, s_clip_frames)
              /\ s_inspected = {i \in 0..(s_frame_idx - 1) : \E k \in 0..i : i = k * st}
        /\ AllRead =>
              /\ s_clip_frames >= 50 =>
                    Cardinality(s_inspected) >= 50 /\ Cardinality(s_inspected) < 100
              /\ s_clip_frames < 50 => s_inspected = 0..(s_clip_frames - 1)
              /\ s_clip_frames <= 0 => s_inspected = {} /\ s_mode = "single"

C33_Witness ==
    /\ AllRead
    /\ s_clip_frames = 100
    /\ Cardinality(s_inspected) = 50
    /\ 2 \in s_inspected /\ 1 \notin s_inspected
    /\ s_mode = "split"

RECURSIVE SumOfAt(_, _)
SumOfAt(xs, I) ==
    IF I = {} THEN 0 ELSE LET i == CHOOSE k \in I : TRUE IN xs[i] + SumOfAt(xs, I \ {i})

\* x is the arithmetic mean of the centres xs[i] / (2 * 640), i in I
IsMeanOfAt(x, xs, I) ==
    /\ I # {} /\ x.den > 0
    /\ x.num * (Cardinality(I) * 2 * DetectW) = SumOfAt(xs, I) * x.den

\* C34: whenever two speakers are resolved, the first has id 0 and is the mean
\* of the observations with center_x < 0.5, the second has id 1 and is the mean
\* of those with center_x >= 0.5; hence speakers[0].x_position < 0.5 <=
\* speakers[1].x_position, the planner's test s0 < s1 is true, and the top crop
\* is the crop of speakers[0] (the swapping branch is not taken).
C34_LeftSpeakerIsFirst ==
    (p_done /\ Len(plan_a.speakers) = 2) =>
        LET s0 == plan_a.speakers[1]
            s1 == plan_a.speakers[2]
        IN  /\ s0.id = 0 /\ s1.id = 1
            /\ IsMeanOfAt(s0.x_position, obs_a, {i \in DOMAIN obs_a : 2 * obs_a[i] < 2 * DetectW})
            /\ IsMeanOfAt(s1.x_position, obs_a, {i \in DOMAIN obs_a : 2 * obs_a[i] >= 2 * DetectW})
            /\ 2 * s0.x_position.num < s0.x_position.den
            /\ s1.x_position.den <= 2 * s1.x_position.num
            /\ s0.x_position.num * s1.x_position.den < s1.x_position.num * s0.x_position.den
            /\ Len(plan_a.crops) = 2
            /\ SplitCropAsSpecified(plan_a.crops[1], s0.x_position, src_w, src_h)
            /\ SplitCropAsSpecified(plan_a.crops[2], s1.x_position, src_w, src_h)

C34_Witness ==
    /\ p_done /\ obs_a = <<DetectW, 384>>
    /\ Len(plan_a.speakers) = 2
    /\ plan_a.speakers[1].id = 0 /\ plan_a.speakers[1].x_position = [num |-> 384, den |-> 2 * DetectW]
    /\ plan_a.speakers[2].x_position = [num |-> DetectW, den |-> 2 * DetectW]
    /\ src_w = 1920

\* the position lies in [0, 1]
InFrame(pos) == 0 <= pos.num /\ pos.num <= pos.den

\* the pixel column pos * W lies in the rectangle r: r.x <= pos * W <= r.x + r.w
ColumnInside(pos, W, r) ==
    /\ r.x * pos.den <= pos.num * W
    /\ pos.num * W <= (r.x + r.w) * pos.den

\* C35: in split mode, for every speaker whose x_position lies in [0, 1], the
\* speaker's pixel column x_position * source_w lies inside that speaker's
\* crop rectangle, at the frame edges as well.
C35_SpeakerInsideCrop ==
    (p_done /\ plan_a.mode = "split") =>
        \A k \in 1..2 :
            InFrame(plan_a.speakers[k].x_position) =>
                ColumnInside(plan_a.speakers[k].x_position, src_w, plan_a.crops[k])

\* both crops are held at a frame edge: the left one at 0 and the right one at
\* source_w - crop_w, neither centred on its speaker
C35_Witness ==
    /\ p_done /\ plan_a.mode = "split"
    /\ src_w = 1920 /\ src_h = 1080
    /\ obs_a = <<10, 1152>>
    /\ plan_a.crops[1].x = 0 /\ plan_a.crops[2].x = 960
    /\ \A k \in 1..2 :
          /\ InFrame(plan_a.speakers[k].x_position)
          /\ ColumnInside(plan_a.speakers[k].x_position, src_w, plan_a.crops[k])

\* C36: for every transcript with start <= end in every word and
\* non-decreasing starts, under every style, every caption event has
\* display_start <= display_end, and the display_start values of successive
\* events do not decrease.
C36_EventsOrdered ==
    (t_done /\ WellTimed) =>
        /\ \A k \in DOMAIN t_events : t_events[k].display_start <= t_events[k].display_end
        /\ \A k \in Adjacent : t_events[k].display_start <= t_events[k + 1].display_start

\* a multi-word chunk whose successor starts at the same instant: the padded
\* end, next_start - 0.05, lies before the chunk's start, and the
\* minimum-duration rule puts the end half a second after the start
C36_Witness ==
    /\ t_done /\ WellTimed /\ Wpd > 1 /\ Len(t_events) >= 2
    /\ t_events[2].display_start = t_events[1].display_start
    /\ t_events[1].extended
    /\ t_events[1].display_end = t_events[1].display_start + 500

\* the families that highlight a word and then revert it
RevertingFamilies == {"scale_color", "punch_return", "glow_highlight"}

\* how long the highlight-in transition of a family takes, in milliseconds
HighlightInOf(family) ==
    IF family = "scale_color" THEN 60 ELSE IF family = "punch_return" THEN 50 ELSE 80

\* C37: in the families that highlight and then revert (scale_color,
\* punch_return, glow_highlight) every word carries a highlight-in transition
\* that starts at the word's start offset and ends 60, 50 and 80 ms later
\* respectively, and a revert transition that starts at the word's end offset,
\* which is at least start + 150 ms: the revert never starts before the
\* highlight-in has ended.
C37_RevertAfterHighlight ==
    (t_done /\ StyleOf(t_style).animation_type \in RevertingFamilies) =>
        \A k \in DOMAIN t_events : \A j \in DOMAIN t_events[k].words :
            \A tr \in t_events[k].transitions[j] :
                /\ Len(tr) = 2
                /\ tr[1].kind = "highlight" /\ tr[2].kind = "revert"
                /\ \E tm \in t_events[k].timing[j] :
                      tr[1].from = tm.word_start_ms /\ tr[2].from = tm.word_end_ms
                /\ tr[1].to = tr[1].from + HighlightInOf(StyleOf(t_style).animation_type)
                /\ tr[2].from >= tr[1].from + 150
                /\ tr[1].to <= tr[2].from

\* a word spoken for 50 ms, shorter than every highlight-in: its revert starts
\* 150 ms after its start
C37_Witness ==
    /\ t_done /\ StyleOf(t_style).animation_type = "glow_highlight"
    /\ \E k \in DOMAIN t_events : \E j \in DOMAIN t_events[k].words :
          /\ t_events[k].words[j].end - t_events[k].words[j].start = 50
          /\ \E tr \in t_events[k].transitions[j] :
                /\ tr[1].to = tr[1].from + 80
                /\ tr[2].from = tr[1].from + 150

\* the split-screen render returned non-zero and the fallback render produced
\* the video
FallbackRendered ==
    LET cs == CallsOf("crop_render")
    IN  /\ Len(cs) = 2
        /\ cs[1].filter = "split_stack" /\ cs[1].rc # 0
        /\ cs[2].filter = FallbackFilter("crop_render") /\ cs[2].rc = 0

\* what process() reports and hands to the caption builder after a fallback
\* render is what the resolver found: two speakers, 'split'
FallbackKeepsLayout ==
    FallbackRendered =>
        /\ layout_mode = "split" /\ Len(speakers) = 2
        /\ Completed("complete") =>
              result.layout_mode = "split" /\ result.speakers_detected = 2

\* C38: the layout mode and the speaker count of the result, and the caption
\* region chosen from the layout, follow the resolved speakers alone and are
\* not changed by a render fallback: when the split-screen render fails and
\* the fallback render produces the video, the result still reports 'split'
\* and the captions of a non-centering style still use the Center region.
C38_FallbackKeepsLayoutAndRegion ==
    /\ FallbackKeepsLayout
    /\ (FallbackRendered /\ ~StyleOf(job_data.subtitle_style).center_vertical) =>
          \A k \in DOMAIN subtitles.events : subtitles.events[k].style_name = "Center"

\* the last status written for the job in hand is 'completed': process_job is
\* returning normally
ReturnsNormally == log # <<>> /\ log[Len(log)].status = "completed"

\* control comes back to the loop from process_job, or from an item that could
\* not be parsed, and the loop polls again; only an interruption ends the loop
FailureKeepsLooping ==
    /\ (pc = "pj_exit" /\ pc' # pc) => pc' = "poll"
    /\ (pc = "parse" /\ pc' # pc /\ ~job_data.json_ok) => pc' \in {"poll", "shutdown"}
    /\ (pc' = "shutdown" /\ pc' # pc) => interrupted'

\* an item leaves the list only by a poll, the item taken is newer than every
\* item taken before, process_job is entered only with the item just taken, and
\* no item taken is on the list again
NoRetry ==
    /\ job_data' # job_data =>
          /\ pc = "poll" /\ pc' = "parse"
          /\ queue # <<>> /\ job_data'.id = queue[Len(queue)]
          /\ job_data'.id > job_data.id
    /\ (pc' = "pj_source" /\ pc' # pc) => (pc = "parse" /\ job_data' = job_data)
    /\ \A i \in DOMAIN queue' : queue'[i] > job_data'.id

\* the counter moves by one when a process_job that returned normally hands
\* control back, and at no other step
CountsReturns ==
    jobs_processed' =
        jobs_processed + (IF pc = "pj_exit" /\ pc' = "poll" /\ ReturnsNormally THEN 1 ELSE 0)

\* C39: a job failure never stops the worker and never causes a retry: after
\* process_job raises, or the item is not valid JSON, the loop polls again; a
\* dequeued job is processed at most once and is never put back on the queue;
\* jobs_processed is incremented exactly once for each job whose process_job
\* returned normally and never for a failed job.
C39_FailureIsNotRetried == [][FailureKeepsLooping /\ NoRetry /\ CountsReturns]_vars

\* the first job failed and was written off; the second was taken next,
\* completed and is the only one counted
C39_Witness ==
    /\ job_data.id = 2 /\ submitted = 2 /\ queue = <<>>
    /\ pc = "poll" /\ ~interrupted
    /\ HasStatus("completed")
    /\ jobs_processed = 1

=============================================================================
